---- MODULE Spec2Model ----
(***************************************************************************)
(* Verification model of the PurePyJasper report engine (pyjasper_lib):    *)
(* the JRXML band parser, the expression evaluator, the data processor and *)
(* the HTML / PDF renderers.                                               *)
(*                                                                         *)
(* Text is modelled at character level: a Python str is a sequence of      *)
(* one-character strings, so that the regex rewrites of the evaluator and  *)
(* the str() / format conversions are computed, not assumed.               *)
(***************************************************************************)
EXTENDS Integers, Sequences, FiniteSets, TLC

(***************************************************************************)
(* Python str helpers                                                      *)
(***************************************************************************)

StartsWith(s, p) == Len(s) >= Len(p) /\ SubSeq(s, 1, Len(p)) = p

EndsWith(s, p) == Len(s) >= Len(p) /\ SubSeq(s, Len(s) - Len(p) + 1, Len(s)) = p

\* s[i:] with a 1-based index
Drop(s, i) == SubSeq(s, i, Len(s))

\* pat in s
Contains(s, pat) == \E i \in 1..(Len(s) - Len(pat) + 1) : SubSeq(s, i, i + Len(pat) - 1) = pat

\* smallest index >= from at which character c occurs in s, 0 when there is none
IndexFrom(s, c, from) ==
    LET hits == {i \in from..Len(s) : s[i] = c}
    IN IF hits = {} THEN 0 ELSE CHOOSE i \in hits : \A j \in hits : i <= j

\* str.replace(pat, rep): every non-overlapping occurrence, left to right
RECURSIVE Replace(_, _, _)
Replace(s, pat, rep) ==
    IF s = <<>> THEN <<>>
    ELSE IF StartsWith(s, pat) THEN rep \o Replace(Drop(s, Len(pat) + 1), pat, rep)
    ELSE <<s[1]>> \o Replace(Drop(s, 2), pat, rep)

DigitChars == <<"0", "1", "2", "3", "4", "5", "6", "7", "8", "9">>

IsDigit(c) == \E d \in 1..10 : DigitChars[d] = c

DigitVal(c) == (CHOOSE d \in 1..10 : DigitChars[d] = c) - 1

\* str(n) for an int n >= 0
RECURSIVE Digits(_)
Digits(n) == IF n < 10 THEN <<DigitChars[n + 1]>> ELSE Digits(n \div 10) \o <<DigitChars[(n % 10) + 1]>>

\* int(s) for a string of decimal digits
RECURSIVE DigitsVal(_)
DigitsVal(s) == IF s = <<>> THEN 0 ELSE 10 * DigitsVal(SubSeq(s, 1, Len(s) - 1)) + DigitVal(s[Len(s)])

AllDigits(s) == s # <<>> /\ \A i \in 1..Len(s) : IsDigit(s[i])

UpperChars == <<"A", "B", "C", "D", "E", "F", "G", "H", "I", "J", "K", "L", "M",
                "N", "O", "P", "Q", "R", "S", "T", "U", "V", "W", "X", "Y", "Z">>

LowerChars == <<"a", "b", "c", "d", "e", "f", "g", "h", "i", "j", "k", "l", "m",
                "n", "o", "p", "q", "r", "s", "t", "u", "v", "w", "x", "y", "z">>

IsUpper(c) == \E i \in 1..26 : UpperChars[i] = c

IsLower(c) == \E i \in 1..26 : LowerChars[i] = c

LowerChar(c) == IF IsUpper(c) THEN LowerChars[CHOOSE i \in 1..26 : UpperChars[i] = c] ELSE c

UpperChar(c) == IF IsLower(c) THEN UpperChars[CHOOSE i \in 1..26 : LowerChars[i] = c] ELSE c

\* str.lower()
Lower(s) == [i \in 1..Len(s) |-> LowerChar(s[i])]

\* str.title(): a cased character is upper-cased after an uncased one, lower-cased otherwise
Title(s) ==
    [i \in 1..Len(s) |->
        IF i = 1 \/ ~(IsUpper(s[i - 1]) \/ IsLower(s[i - 1])) THEN UpperChar(s[i]) ELSE LowerChar(s[i])]

(***************************************************************************)
(* Python values held in rows, variables and parameters                    *)
(***************************************************************************)

PyStrVal(s) == [ty |-> "str", s |-> s, n |-> 0]

PyInt(n) == [ty |-> "int", s |-> <<>>, n |-> n]

\* a float with an integral value (the sums of int columns)
PyFloat(n) == [ty |-> "float", s |-> <<>>, n |-> n]

PyNone == [ty |-> "none", s |-> <<>>, n |-> 0]

\* str(value)
PyStr(v) ==
    CASE v.ty = "str" -> v.s
      [] v.ty = "int" -> Digits(v.n)
      [] v.ty = "float" -> Digits(v.n) \o <<".", "0">>
      [] OTHER -> <<"N", "o", "n", "e">>

\* dict.get(key, default)
DictGet(d, key, default) == IF key \in DOMAIN d THEN d[key] ELSE default

EmptyDict == [k \in {} |-> PyNone]

(***************************************************************************)
(* ExpressionEvaluator (parsers.py)                                        *)
(***************************************************************************)

CDataOpen == <<"<", "!", "[", "C", "D", "A", "T", "A", "[">>

CDataClose == <<"]", "]", ">">>

DataGet == <<"s", "e", "l", "f", ".", "d", "a", "t", "a", ".", "g", "e", "t", "(", "'">>

VariablesGet == <<"s", "e", "l", "f", ".", "v", "a", "r", "i", "a", "b", "l", "e", "s", ".", "g", "e", "t", "(", "'">>

ParametersGet == <<"s", "e", "l", "f", ".", "p", "a", "r", "a", "m", "e", "t", "e", "r", "s", ".", "g", "e", "t", "(", "'">>

\* the text  ', '')  that closes a rewritten reference
GetTail == <<"'", ",", " ", "'", "'", ")">>

PlusText == <<" ", "+", " ">>

PlusStr == <<" ", "+", " ", "s", "t", "r", "(">>

ClosePlusStr == <<")", " ", "+", " ", "s", "t", "r", "(">>

\* index of the "}" closing a reference $<tag>{name} that starts at s[1], 0 when
\* the regex \$<tag>\{([^}]+)\} does not match there
RefClose(s, tag) ==
    IF Len(s) >= 5 /\ SubSeq(s, 1, 3) = <<"$", tag, "{">> /\ s[4] # "}"
    THEN IndexFrom(s, "}", 5)
    ELSE 0

\* re.sub(r'\$<tag>\{([^}]+)\}', lambda m: f"<prefix>{m.group(1)}', '')", s)
RECURSIVE SubRefs(_, _, _)
SubRefs(s, tag, prefix) ==
    IF s = <<>> THEN <<>>
    ELSE LET close == RefClose(s, tag)
         IN IF close > 0
            THEN prefix \o SubSeq(s, 4, close - 1) \o GetTail \o SubRefs(Drop(s, close + 1), tag, prefix)
            ELSE <<s[1]>> \o SubRefs(Drop(s, 2), tag, prefix)

\* re.search(r'\$F\{([^}]+)\}', s): the name of the first field reference, <<>> when none
RECURSIVE SearchFieldRef(_)
SearchFieldRef(s) ==
    IF s = <<>> THEN <<>>
    ELSE LET close == RefClose(s, "F")
         IN IF close > 0 THEN SubSeq(s, 4, close - 1) ELSE SearchFieldRef(Drop(s, 2))

\* the CDATA wrapper removed when the expression carries one
StripCData(expression) ==
    IF StartsWith(expression, CDataOpen) /\ EndsWith(expression, CDataClose)
    THEN SubSeq(expression, 10, Len(expression) - 3)
    ELSE expression

\* the second half of the handling of ' + ': every ' + str(' closed on its left, one ")" appended
ClosePlus(plus) == IF Contains(plus, PlusStr) THEN Replace(plus, PlusStr, ClosePlusStr) \o <<")">> ELSE plus

\* the three rewrites of evaluate followed by its handling of ' + '
Rewrite(expression) ==
    ClosePlus(Replace(SubRefs(SubRefs(SubRefs(StripCData(expression), "F", DataGet), "V", VariablesGet),
                              "P", ParametersGet),
                      PlusText, PlusStr))

\* the key of a call  <prefix>key', '')  whose key is a plain string literal body
IsGetCall(e, prefix) ==
    /\ StartsWith(e, prefix)
    /\ EndsWith(e, GetTail)
    /\ Len(e) > Len(prefix) + Len(GetTail)
    /\ \A i \in (Len(prefix) + 1)..(Len(e) - Len(GetTail)) : e[i] \notin {"'", "\\", "\n"}

GetKey(e, prefix) == SubSeq(e, Len(prefix) + 1, Len(e) - Len(GetTail))

\* str.strip() for blanks
RECURSIVE Strip(_)
Strip(s) ==
    IF s = <<>> THEN <<>>
    ELSE IF s[1] = " " THEN Strip(Tail(s))
    ELSE IF s[Len(s)] = " " THEN Strip(SubSeq(s, 1, Len(s) - 1))
    ELSE s

\* a plain Python string literal in quotes q: no quote, backslash or newline inside
IsStrLiteral(e, q) ==
    /\ Len(e) >= 2
    /\ e[1] = q
    /\ e[Len(e)] = q
    /\ \A i \in 2..(Len(e) - 1) : e[i] \notin {q, "\\", "\n"}

\* eval of a source text without blanks around it, for the expression forms of
\* the model: a single rewritten reference is a dict lookup, a decimal literal
\* is an int, every other form (an unbalanced ")", a broken string literal, a
\* bare word, adjacent calls) raises and is answered by the except branch.
EvalSource(e, data, variables, parameters) ==
    IF IsGetCall(e, DataGet)
    THEN [ok |-> TRUE, val |-> DictGet(data, GetKey(e, DataGet), PyStrVal(<<>>))]
    ELSE IF IsGetCall(e, VariablesGet)
    THEN [ok |-> TRUE, val |-> DictGet(variables, GetKey(e, VariablesGet), PyStrVal(<<>>))]
    ELSE IF IsGetCall(e, ParametersGet)
    THEN [ok |-> TRUE, val |-> DictGet(parameters, GetKey(e, ParametersGet), PyStrVal(<<>>))]
    ELSE IF AllDigits(e) /\ (Len(e) = 1 \/ e[1] # "0")
    THEN [ok |-> TRUE, val |-> PyInt(DigitsVal(e))]
    ELSE IF IsStrLiteral(e, "\"") \/ IsStrLiteral(e, "'")
    THEN [ok |-> TRUE, val |-> PyStrVal(SubSeq(e, 2, Len(e) - 1))]
    ELSE [ok |-> FALSE, val |-> PyNone]

\* eval(expression) inside evaluate: eval strips the blanks around its source
PyEval(e, data, variables, parameters) == EvalSource(Strip(e), data, variables, parameters)

\* str(eval(expression)), or the rewritten text when eval raised
EvalText(r, e) == IF r.ok THEN PyStr(r.val) ELSE e

\* the try block of evaluate on the rewritten expression e
EvaluateRewritten(e, data, variables, parameters) ==
    IF StartsWith(e, <<"\"">>) /\ EndsWith(e, <<"\"">>)
    THEN SubSeq(e, 2, Len(e) - 1)
    ELSE EvalText(PyEval(e, data, variables, parameters), e)

\* ExpressionEvaluator.evaluate
Evaluate(expression, data, variables, parameters) ==
    IF expression = <<>> THEN <<>>
    ELSE EvaluateRewritten(Rewrite(expression), data, variables, parameters)

(***************************************************************************)
(* Names, expressions and values of the bounded model                      *)
(***************************************************************************)

nG == <<"g">>

nAmount == <<"a", "m", "o", "u", "n", "t">>

nT == <<"t">>

nP == <<"p">>

nQuote == <<"i", "t", "'", "s">>

nPageNumber == <<"P", "A", "G", "E", "_", "N", "U", "M", "B", "E", "R">>

nPageCount == <<"P", "A", "G", "E", "_", "C", "O", "U", "N", "T">>

FRef(name) == <<"$", "F", "{">> \o name \o <<"}">>

VRef(name) == <<"$", "V", "{">> \o name \o <<"}">>

PRef(name) == <<"$", "P", "{">> \o name \o <<"}">>

Quoted(s) == <<"\"">> \o s \o <<"\"">>

sX == <<"x">>

sY == <<"y">>

sPage == <<"P", "a", "g", "e", " ">>

sTotal == <<"T", "o", "t", "a", "l">>

sPV == <<"p", "v">>

(***************************************************************************)
(* DataProcessor (database.py)                                             *)
(***************************************************************************)

\* float(s) for the numeric texts of the model: "15" and "15.0"; ok = FALSE is ValueError
ParseFloat(s) ==
    IF AllDigits(s) THEN [ok |-> TRUE, n |-> DigitsVal(s)]
    ELSE IF Len(s) > 2 /\ EndsWith(s, <<".", "0">>) /\ AllDigits(SubSeq(s, 1, Len(s) - 2))
    THEN [ok |-> TRUE, n |-> DigitsVal(SubSeq(s, 1, Len(s) - 2))]
    ELSE [ok |-> FALSE, n |-> 0]

\* the number added for a str value: float(value), nothing on ValueError
FloatOrZero(parsed) == IF parsed.ok THEN parsed.n ELSE 0

\* f"{value:.2f}" of an integral float
Format2f(n) == Digits(n) \o <<".", "0", "0">>

\* a == b for two row values: numbers compare by value, whatever their type
PyEq(a, b) == IF a.ty \in {"int", "float"} /\ b.ty \in {"int", "float"} THEN a.n = b.n ELSE a = b

\* position of key among the groups built so far, 0 when it is a new key
GroupIndex(groups, key) ==
    IF \E i \in 1..Len(groups) : PyEq(groups[i].key, key)
    THEN CHOOSE i \in 1..Len(groups) : PyEq(groups[i].key, key)
    ELSE 0

\* DataProcessor.group_by: a dict keyed by row.get(field), in insertion order
RECURSIVE GroupByFrom(_, _, _)
GroupByFrom(rows, field, groups) ==
    IF rows = <<>> THEN groups
    ELSE LET key == DictGet(rows[1], field, PyNone)
             at == GroupIndex(groups, key)
         IN GroupByFrom(Tail(rows), field,
                IF at = 0
                THEN Append(groups, [key |-> key, rows |-> <<rows[1]>>])
                ELSE [groups EXCEPT ![at].rows = Append(@, rows[1])])

\* a grouping that opens a new group whenever the key differs from the one before
RECURSIVE GroupRunsFrom(_, _, _)
GroupRunsFrom(rows, field, groups) ==
    IF rows = <<>> THEN groups
    ELSE IF groups # <<>> /\ PyEq(groups[Len(groups)].key, DictGet(rows[1], field, PyNone))
    THEN GroupRunsFrom(Tail(rows), field, [groups EXCEPT ![Len(groups)].rows = Append(@, rows[1])])
    ELSE GroupRunsFrom(Tail(rows), field, Append(groups, [key |-> DictGet(rows[1], field, PyNone), rows |-> <<rows[1]>>]))

group_by_runs(data, field) == GroupRunsFrom(data, field, <<>>)

group_by(data, field) == GroupByFrom(data, field, <<>>)

\* the amount a value adds in calculate_sum
SumValue(value) ==
    CASE value.ty \in {"int", "float"} -> value.n
      [] value.ty = "str" -> FloatOrZero(ParseFloat(value.s))
      [] OTHER -> 0

\* the amount one row adds in calculate_sum
SumTerm(row, field) == SumValue(DictGet(row, field, PyInt(0)))

RECURSIVE SumFrom(_, _)
SumFrom(rows, field) == IF rows = <<>> THEN 0 ELSE SumTerm(rows[1], field) + SumFrom(Tail(rows), field)

\* DataProcessor.calculate_sum: always a float
calculate_sum(rows, field) == PyFloat(SumFrom(rows, field))

(***************************************************************************)
(* JRXMLParser: bands and their elements (parsers.py)                      *)
(***************************************************************************)

\* the band kinds a JRXML source can declare
SourceBandKinds ==
    {"title", "pageHeader", "columnHeader", "detail", "columnFooter",
     "pageFooter", "lastPageFooter", "summary", "groupHeader", "groupFooter"}

\* band_types of _parse_bands
band_types ==
    {"title", "pageHeader", "columnHeader", "detail", "columnFooter",
     "pageFooter", "lastPageFooter", "summary"}

\* _parse_element plus the text / expression lookup of _parse_band_elements;
\* <<>> stands for None
ParseElement(src) ==
    [element_type |-> src.tag,
     content |-> IF src.tag = "staticText" THEN Strip(src.text) ELSE <<>>,
     expression |-> IF src.tag = "textField" THEN Strip(src.text) ELSE <<>>]

RECURSIVE ParseTagged(_, _)
ParseTagged(srcElements, tag) ==
    IF srcElements = <<>> THEN <<>>
    ELSE IF srcElements[1].tag = tag /\ srcElements[1].reportElement
    THEN <<ParseElement(srcElements[1])>> \o ParseTagged(Tail(srcElements), tag)
    ELSE ParseTagged(Tail(srcElements), tag)

\* _parse_band_elements: every staticText first, then every textField
ParseBandElements(srcElements) ==
    ParseTagged(srcElements, "staticText") \o ParseTagged(srcElements, "textField")

\* _parse_bands: only the kinds of band_types are looked up
ParseBands(srcBands) ==
    [b \in (DOMAIN srcBands) \cap band_types |->
        [name |-> b, height |-> srcBands[b].height, elements |-> ParseBandElements(srcBands[b].elements)]]

\* _parse_query: the stripped text of the queryString element, <<>> for None
parse_query(text) == Strip(StripCData(Strip(text)))

\* JRXMLParser.parse, the parts the engine reads
Parse(source) ==
    [query |-> parse_query(source.query),
     fields |-> source.fields,
     variables |-> source.variables,
     groups |-> source.groups,
     bands |-> ParseBands(source.bands),
     page_width |-> IF AllDigits(source.pageWidth) THEN DigitsVal(source.pageWidth) ELSE 0]

\* self.report_def = None: no template
NoReport == [present |-> FALSE]

\* a parser that answers an error with the part of the definition it had built
parse_keeping_partial(source) ==
    IF source.markup # "wellformed" \/ ~AllDigits(source.pageWidth)
    THEN [raised |-> "none", report_def |-> [Parse(source) EXCEPT !.bands = <<>>]]
    ELSE [raised |-> "none", report_def |-> Parse(source)]

\* JRXMLParser.parse on the source text: ET.fromstring raises ParseError on
\* text that is not well-formed, int() raises ValueError on an attribute that
\* is no number; both leave parse as JRXMLParseError, otherwise the finished
\* ReportDefinition is returned
parse(source) ==
    IF source.markup # "wellformed" \/ ~AllDigits(source.pageWidth)
    THEN [raised |-> "JRXMLParseError", report_def |-> NoReport]
    ELSE [raised |-> "none", report_def |-> Parse(source)]

(***************************************************************************)
(* State                                                                   *)
(***************************************************************************)

VARIABLES
    source,         \* the JRXML source the report was built from
    report_def,     \* the parsed ReportDefinition
    data,           \* the bound rows
    parameters,     \* the bound parameters
    variables,      \* renderer.variables, the live accumulator map
    fmt,            \* the renderer at work: "html", "pdf" or "none"
    pc,             \* the renderer's position in render()
    output,         \* the regions emitted so far, in order
    trace,          \* the band kinds visited so far, in order
    grouped_data,   \* the groups of _render_grouped_content
    gi,             \* index of the group at work
    ri,             \* index of the detail row at work
    evaluator,      \* an ExpressionEvaluator instance
    evalCall,       \* one evaluate() call on it: expression, position, result
    database_engine,\* the facade's DatabaseEngine: present or not, its kind, its connection
    database,       \* the data source behind the engine: reachable or not, its rows, the queries it was sent
    call,           \* the facade operation called last: its name, argument, result, exception
    other,          \* a second JasperReport instance, between two of its operations
    previous,       \* the document the generate call before the last one returned
    outcome         \* what generate_report returned and what save_report left at the output path

vars == <<source, report_def, data, parameters, variables, fmt, pc, output, trace,
          grouped_data, gi, ri, evaluator, evalCall, database_engine, database, call, other, previous,
          outcome>>

sessionVars == <<other, previous, outcome>>

facadeVars == <<database_engine, database, call, sessionVars>>

renderVars == <<variables, fmt, pc, output, trace, grouped_data, gi, ri>>

(***************************************************************************)
(* DatabaseEngine (database.py) and the data source behind it              *)
(***************************************************************************)

\* str.upper()
Upper(s) == [i \in 1..Len(s) |-> UpperChar(s[i])]

\* a slice that is one element too long
TakeOneMore(s, n) == SubSeq(s, 1, IF n + 1 < Len(s) THEN n + 1 ELSE Len(s))

\* s[:n] for n >= 0
Take(s, n) == SubSeq(s, 1, IF n < Len(s) THEN n ELSE Len(s))

sLIMIT == <<"L", "I", "M", "I", "T">>

\* f" LIMIT {limit}"
LimitClause(limit) == <<" ">> \o sLIMIT \o <<" ">> \o Digits(limit)

sSelect == <<"S", "E", "L", "E", "C", "T", " ", "*", " ", "F", "R", "O", "M", " ", "t">>

\* no data source behind the facade
NoDatabase == [reachable |-> FALSE, rows |-> <<>>, log |-> <<>>]

\* the facade holds no engine: self.database_engine = None
NoEngine == [present |-> FALSE, db_type |-> "none", connection |-> "none", unclosed |-> 0]

\* DatabaseEngine.__init__: the kind is read off the connection string, no
\* connection yet; unclosed counts the connections this engine opened and
\* let go of without closing them
DatabaseEngine(db_type) == [present |-> TRUE, db_type |-> db_type, connection |-> "none", unclosed |-> 0]

\* DatabaseEngine.connect: a connection when the data source can be reached,
\* otherwise DatabaseError with self.connection left as it was; the new
\* connection is assigned to self.connection whatever that held, so a
\* connection still open there is let go of unclosed
connect(engine, db) ==
    IF db.reachable
    THEN [engine EXCEPT !.connection = "open",
                        !.unclosed = IF engine.connection = "open" THEN @ + 1 ELSE @]
    ELSE engine

\* DatabaseEngine.disconnect
disconnect(engine) == [engine EXCEPT !.connection = "none"]

\* the text after SELECT * FROM t of a query the data source accepts: nothing,
\* or a row-limiting clause in either case
IsLimitTail(tail) ==
    /\ Len(tail) > 7
    /\ Upper(SubSeq(tail, 1, 7)) = <<" ">> \o sLIMIT \o <<" ">>
    /\ AllDigits(Drop(tail, 8))

\* the data source accepts the query text
QueryOk(query) ==
    /\ StartsWith(query, sSelect)
    /\ Drop(query, Len(sSelect) + 1) = <<>> \/ IsLimitTail(Drop(query, Len(sSelect) + 1))

\* the rows the data source returns for an accepted query
QueryRows(rows, query) ==
    IF query = sSelect THEN rows ELSE Take(rows, DigitsVal(Drop(query, Len(sSelect) + 8)))

\* cursor.execute and the row dictionaries built from it, on an engine that has
\* been through "if not self.connection: self.connect()"
ExecuteConnected(engine, db, query) ==
    IF engine.connection = "none"
    THEN [engine |-> engine, ok |-> FALSE, rows |-> <<>>]
    ELSE IF QueryOk(query)
    THEN [engine |-> engine, ok |-> TRUE, rows |-> QueryRows(db.rows, query)]
    ELSE [engine |-> engine, ok |-> FALSE, rows |-> <<>>]

\* DatabaseEngine.execute_query: ok = FALSE stands for DatabaseError
engine_execute_query(engine, db, query) ==
    ExecuteConnected(IF engine.connection = "none" THEN connect(engine, db) ELSE engine, db, query)

\* DatabaseEngine.get_tables / get_table_schema: ok = FALSE stands for DatabaseError
engine_get_tables(engine, db) ==
    IF engine.connection = "none" /\ ~db.reachable
    THEN [engine |-> engine, ok |-> FALSE]
    ELSE [engine |-> [engine EXCEPT !.connection = "open"], ok |-> TRUE]

\* DatabaseEngine.test_connection: connect, SELECT 1, and disconnect in the finally clause
test_connection(engine, db) == [engine |-> disconnect(connect(engine, db)), ok |-> db.reachable]

(***************************************************************************)
(* JasperReport: data binding for generate (core.py)                       *)
(***************************************************************************)

\* the outcome of DatabaseEngine.execute_query as JasperReport.execute_query
\* hands it on: the rows become self.data, any exception becomes DatabaseError
QueryOutcome(r, query) ==
    [engine |-> r.engine, raised |-> IF r.ok THEN "none" ELSE "DatabaseError", rows |-> r.rows, sent |-> <<query>>]

\* JasperReport.execute_query: engine is the engine afterwards, raised the
\* exception raised ("none" when it returns), rows the new self.data, sent the
\* queries handed to the data source
execute_query(engine, db, query) ==
    IF ~engine.present
    THEN [engine |-> engine, raised |-> "DatabaseError", rows |-> <<>>, sent |-> <<>>]
    ELSE IF query = <<>>
    THEN [engine |-> engine, raised |-> "JasperError", rows |-> <<>>, sent |-> <<>>]
    ELSE QueryOutcome(engine_execute_query(engine, db, query), query)

\* a binding test that forgets to ask whether the template has a query
NeedsQueryWhenUnbound(d, query) == d = <<>>

\* a binding test that forgets the rows already bound
NeedsQueryIgnoringData(d, query) == query # <<>>

\* "if not self.data and self.report_def.query" of generate_html / generate_pdf
NeedsQuery(d, query) == d = <<>> /\ query # <<>>

\* a binding step that refuses to go on when the connection test would fail
BindDataTestingConnection(d, engine, db, query) ==
    IF engine.present /\ ~db.reachable
    THEN [engine |-> engine, raised |-> "DatabaseError", rows |-> d, sent |-> <<>>]
    ELSE IF NeedsQuery(d, query)
    THEN execute_query(engine, db, query)
    ELSE [engine |-> engine, raised |-> "none", rows |-> d, sent |-> <<>>]

\* the binding step of generate_html / generate_pdf
BindData(d, engine, db, query) ==
    IF NeedsQuery(d, query)
    THEN execute_query(engine, db, query)
    ELSE [engine |-> engine, raised |-> "none", rows |-> d, sent |-> <<>>]

\* no facade operation called yet
NoValidation == [valid |-> TRUE, issues |-> <<>>, warnings |-> <<>>, database_status |-> "none"]

NoCall == [op |-> "none", n |-> 0, limit |-> 0, rows |-> <<>>, validation |-> NoValidation,
           error |-> FALSE, raised |-> "none", field |-> <<>>]

\* no second instance has been constructed
NoInstance == [present |-> FALSE]

\* no bytes: nothing returned, nothing on disk
NoContent == [present |-> FALSE, output |-> <<>>]

\* generate_report has returned nothing and the output path holds no file
NoOutcome == [format |-> <<>>, content |-> NoContent, error |-> "none", file |-> NoContent, connection |-> "none"]

\* no generate call has returned a document yet
NoDocument == [present |-> FALSE, fmt |-> "none", output |-> <<>>]

\* a renderer that starts from the accumulators the renderer before it left
RendererVariablesKept(last) == last

\* BaseRenderer.__init__: self.variables = {} in the new renderer of every
\* generate call, whatever the last renderer held
RendererVariables(last) == EmptyDict

\* generate_html / generate_pdf up to renderer.render(): bind the data, then a
\* fresh renderer on it at its first band, unless binding raised
RendererTemplateRegrouped(rd) == [rd EXCEPT !.groups = <<>>]

\* BaseRenderer.__init__ keeps a reference to the facade's template: the
\* renderer works on the very object the facade holds and only reads it
RendererTemplate(rd) == rd

StartRender(op, f, first, bound) ==
    /\ pc = "idle"
    /\ report_def' = IF bound.raised = "none" THEN RendererTemplate(report_def) ELSE report_def
    /\ database_engine' = bound.engine
    /\ database' = [database EXCEPT !.log = @ \o bound.sent]
    /\ data' = IF bound.raised = "none" THEN bound.rows ELSE data
    /\ call' = [NoCall EXCEPT !.op = op, !.n = call.n + 1, !.raised = bound.raised]
    /\ fmt' = IF bound.raised = "none" THEN f ELSE fmt
    /\ pc' = IF bound.raised = "none" THEN first ELSE "raised"
    /\ variables' = RendererVariables(variables)
    /\ output' = <<>>
    /\ trace' = <<>>
    /\ grouped_data' = <<>>
    /\ gi' = 0
    /\ ri' = 0
    /\ UNCHANGED <<source, parameters, evaluator, evalCall>>

\* generate_html / generate_pdf called by the user
Generate(op, f, first, bound) == StartRender(op, f, first, bound) /\ UNCHANGED sessionVars

(***************************************************************************)
(* HTMLRenderer (renderers.py)                                             *)
(***************************************************************************)

NoEvaluator == [present |-> FALSE, data |-> EmptyDict, variables |-> EmptyDict, parameters |-> EmptyDict]

\* ExpressionEvaluator.__init__
ExpressionEvaluator(row, vs, ps) == [present |-> TRUE, data |-> row, variables |-> vs, parameters |-> ps]

sAmount == <<"a", "m", "o", "u", "n", "t">>

sSalary == <<"s", "a", "l", "a", "r", "y">>

\* 'amount' in name.lower() or 'salary' in name.lower()
IsCurrencyName(name) == Contains(Lower(name), sAmount) \/ Contains(Lower(name), sSalary)

\* the content chosen by _render_element before formatting
ElementContent(element, ev) ==
    IF element.element_type = "staticText" /\ element.content # <<>> THEN element.content
    ELSE IF element.element_type = "textField" /\ element.expression # <<>>
    THEN IF ev.present
         THEN Evaluate(element.expression, ev.data, ev.variables, ev.parameters)
         ELSE element.expression
    ELSE <<>>

\* the evaluator _render_element works with: the one passed in, or a new one on a non-empty row
ElementEvaluator(row_data, ev0, selfVariables, selfParameters) ==
    IF ~ev0.present /\ DOMAIN row_data # {}
    THEN ExpressionEvaluator(row_data, selfVariables, selfParameters)
    ELSE ev0

\* f"${value:.2f}" when float(content) succeeds
CurrencyText(content, amount) == IF amount.ok THEN <<"$">> \o Format2f(amount.n) ELSE content

\* the currency formatting of _render_element
FormatContent(expression, content) ==
    IF IsCurrencyName(expression) /\ content # <<>> /\ content # expression
    THEN CurrencyText(content, ParseFloat(content))
    ELSE content

\* HTMLRenderer._render_element: the cell emitted for one element
RenderElement(element, row_data, ev0, selfVariables, selfParameters) ==
    [element_type |-> element.element_type,
     content |-> FormatContent(element.expression,
                    ElementContent(element, ElementEvaluator(row_data, ev0, selfVariables, selfParameters)))]

RenderElements(elements, row_data, ev0, selfVariables, selfParameters) ==
    [i \in 1..Len(elements) |-> RenderElement(elements[i], row_data, ev0, selfVariables, selfParameters)]

\* one <div class="..."> container with its element cells
Region(cls, band, height, cells) == [cls |-> cls, band |-> band, height |-> height, cells |-> cells]

HasBand(b) == b \in DOMAIN report_def.bands

\* a band rendered without an evaluator: _render_title, _render_page_header, _render_column_header
PlainBand(cls, b) ==
    Region(cls, b, report_def.bands[b].height,
           RenderElements(report_def.bands[b].elements, EmptyDict, NoEvaluator, variables, parameters))

\* a band rendered with an explicit evaluator
EvaluatedBand(cls, b, row_data, ev, vs) ==
    Region(cls, b, report_def.bands[b].height,
           RenderElements(report_def.bands[b].elements, row_data, ev, vs, parameters))

\* the Sum loop of _render_grouped_content / _render_summary over report_def.variables
RECURSIVE SumTotals(_, _, _)
SumTotals(varDefs, rows, acc) ==
    IF varDefs = <<>> THEN acc
    ELSE LET v == varDefs[1]
             field == SearchFieldRef(v.expression)
         IN SumTotals(Tail(varDefs), rows,
                IF v.calculation = "Sum" /\ field # <<>>
                THEN (v.name :> calculate_sum(rows, field)) @@ acc
                ELSE acc)

\* the group field of _render_grouped_content, <<>> when there is no usable group
GroupField == IF report_def.groups = <<>> THEN <<>> ELSE SearchFieldRef(report_def.groups[1].expression)

\* JasperReport.generate_html
GenerateHtml ==
    Generate("generate_html", "html", "title", BindData(data, database_engine, database, report_def.query))

\* HTMLRenderer._render_title
RenderTitle ==
    /\ pc = "title"
    /\ IF HasBand("title")
       THEN /\ output' = Append(output, PlainBand("band title-band", "title"))
            /\ trace' = Append(trace, "title")
       ELSE UNCHANGED <<output, trace>>
    /\ pc' = "pageHeader"
    /\ UNCHANGED <<source, report_def, data, parameters, variables, fmt, grouped_data, gi, ri, evaluator, evalCall, facadeVars>>

\* HTMLRenderer._render_page_header
RenderPageHeader ==
    /\ pc = "pageHeader"
    /\ IF HasBand("pageHeader")
       THEN /\ output' = Append(output, PlainBand("band page-header", "pageHeader"))
            /\ trace' = Append(trace, "pageHeader")
       ELSE UNCHANGED <<output, trace>>
    /\ pc' = "content"
    /\ UNCHANGED <<source, report_def, data, parameters, variables, fmt, grouped_data, gi, ri, evaluator, evalCall, facadeVars>>

\* HTMLRenderer._render_content up to the first row: the no-data notice, the
\* grouping of _render_grouped_content, or the column header of _render_simple_content
RenderContent ==
    /\ pc = "content"
    /\ IF data = <<>>
       THEN /\ output' = Append(output, Region("no-data", "none", 0, <<>>))
            /\ pc' = "pageFooter"
            /\ UNCHANGED <<trace, grouped_data, gi, ri>>
       ELSE IF GroupField # <<>>
       THEN /\ grouped_data' = group_by(data, GroupField)
            /\ gi' = 1
            /\ pc' = "groupHeader"
            /\ UNCHANGED <<output, trace, ri>>
       ELSE /\ IF HasBand("columnHeader")
               THEN /\ output' = Append(output, PlainBand("band", "columnHeader"))
                    /\ trace' = Append(trace, "columnHeader")
               ELSE UNCHANGED <<output, trace>>
            /\ ri' = 1
            /\ pc' = "simpleDetail"
            /\ UNCHANGED <<grouped_data, gi>>
    /\ UNCHANGED <<source, report_def, data, parameters, variables, fmt, evaluator, evalCall, facadeVars>>

\* the group header step of the loop in _render_grouped_content
RenderGroupHeader ==
    /\ pc = "groupHeader"
    /\ LET g == grouped_data[gi]
           row == (GroupField :> g.key)
       IN IF HasBand("groupHeader")
          THEN /\ output' = Append(output,
                       EvaluatedBand("band", "groupHeader", row,
                                     ExpressionEvaluator(row, variables, parameters), variables))
               /\ trace' = Append(trace, "groupHeader")
          ELSE UNCHANGED <<output, trace>>
    /\ ri' = 1
    /\ pc' = "groupDetail"
    /\ UNCHANGED <<source, report_def, data, parameters, variables, fmt, grouped_data, gi, evaluator, evalCall, facadeVars>>

\* HTMLRenderer._render_detail_row: nothing when the template has no detail band
DetailRow(row) ==
    /\ IF HasBand("detail")
       THEN /\ output' = Append(output,
                    EvaluatedBand("band", "detail", row, ExpressionEvaluator(row, variables, parameters), variables))
            /\ trace' = Append(trace, "detail")
       ELSE UNCHANGED <<output, trace>>

\* one detail row of the group at work
RenderGroupDetailRow ==
    /\ pc = "groupDetail"
    /\ DetailRow(grouped_data[gi].rows[ri])
    /\ IF ri < Len(grouped_data[gi].rows)
       THEN ri' = ri + 1 /\ pc' = pc
       ELSE ri' = 0 /\ pc' = "groupFooter"
    /\ UNCHANGED <<source, report_def, data, parameters, variables, fmt, grouped_data, gi, evaluator, evalCall, facadeVars>>

\* the group totals and the group footer of the loop in _render_grouped_content
RenderGroupFooter ==
    /\ pc = "groupFooter"
    /\ LET totals == SumTotals(report_def.variables, grouped_data[gi].rows, variables)
       IN /\ variables' = totals
          /\ IF HasBand("groupFooter")
             THEN /\ output' = Append(output,
                          EvaluatedBand("band", "groupFooter", EmptyDict,
                                        ExpressionEvaluator(EmptyDict, totals, parameters), totals))
                  /\ trace' = Append(trace, "groupFooter")
             ELSE UNCHANGED <<output, trace>>
    /\ IF gi < Len(grouped_data)
       THEN gi' = gi + 1 /\ pc' = "groupHeader"
       ELSE gi' = gi /\ pc' = "pageFooter"
    /\ UNCHANGED <<source, report_def, data, parameters, fmt, grouped_data, ri, evaluator, evalCall, facadeVars>>

\* one detail row of _render_simple_content
RenderSimpleDetailRow ==
    /\ pc = "simpleDetail"
    /\ DetailRow(data[ri])
    /\ IF ri < Len(data)
       THEN ri' = ri + 1 /\ pc' = pc
       ELSE ri' = 0 /\ pc' = "pageFooter"
    /\ UNCHANGED <<source, report_def, data, parameters, variables, fmt, grouped_data, gi, evaluator, evalCall, facadeVars>>

\* current_page / total_pages of BaseRenderer.__init__
PageVars == (nPageNumber :> PyInt(1)) @@ (nPageCount :> PyInt(1))

\* HTMLRenderer._render_page_footer
RenderPageFooter ==
    /\ pc = "pageFooter"
    /\ IF HasBand("pageFooter")
       THEN /\ output' = Append(output,
                    EvaluatedBand("band page-footer", "pageFooter", EmptyDict,
                                  ExpressionEvaluator(EmptyDict, PageVars, parameters), variables))
            /\ trace' = Append(trace, "pageFooter")
       ELSE UNCHANGED <<output, trace>>
    /\ pc' = "summary"
    /\ UNCHANGED <<source, report_def, data, parameters, variables, fmt, grouped_data, gi, ri, evaluator, evalCall, facadeVars>>

\* HTMLRenderer._render_summary
RenderSummary ==
    /\ pc = "summary"
    /\ IF HasBand("summary")
       THEN LET totals == SumTotals(report_def.variables, data, variables)
            IN /\ variables' = totals
               /\ output' = Append(output,
                       EvaluatedBand("band summary-band", "summary", EmptyDict,
                                     ExpressionEvaluator(EmptyDict, totals, parameters), totals))
               /\ trace' = Append(trace, "summary")
       ELSE UNCHANGED <<variables, output, trace>>
    /\ pc' = "done"
    /\ UNCHANGED <<source, report_def, data, parameters, fmt, grouped_data, gi, ri, evaluator, evalCall, facadeVars>>

(***************************************************************************)
(* PDFRenderer (renderers.py): the story of flowables handed to doc.build  *)
(***************************************************************************)

Paragraph(band, text) == Region("Paragraph", band, 0, <<[element_type |-> "paragraph", content |-> text]>>)

Table(table_data) == Region("Table", "detail", 0, [i \in 1..Len(table_data) |-> [element_type |-> "row", content |-> table_data[i]]])

\* field.name.replace('_', ' ').title()
DisplayName(name) == Title(Replace(name, <<"_">>, <<" ">>))

\* bool(value)
Truthy(value) ==
    CASE value.ty = "str" -> value.s # <<>>
      [] value.ty \in {"int", "float"} -> value.n # 0
      [] OTHER -> FALSE

\* float(value); ok = FALSE is ValueError / TypeError
FloatOf(value) ==
    CASE value.ty \in {"int", "float"} -> [ok |-> TRUE, n |-> value.n]
      [] value.ty = "str" -> ParseFloat(value.s)
      [] OTHER -> [ok |-> FALSE, n |-> 0]

\* float(value) if value else 0.0
AmountOf(value) == IF Truthy(value) THEN FloatOf(value) ELSE [ok |-> TRUE, n |-> 0]

\* the text of a cell: currency for an amount / salary column whose value is a number
CellText(name, value, amount) ==
    IF IsCurrencyName(name) /\ amount.ok THEN <<"$">> \o Format2f(amount.n) ELSE PyStr(value)

\* the value shown for a field of a row
CellValue(name, value) == CellText(name, value, AmountOf(value))

\* one cell of a data row in _prepare_table_data / _prepare_group_table_data
TableCell(row, name) == CellValue(name, DictGet(row, name, PyStrVal(<<>>)))

TableRows(rows) ==
    [i \in 1..Len(rows) |-> [j \in 1..Len(report_def.fields) |-> TableCell(rows[i], report_def.fields[j])]]

FieldHeaderRow == [j \in 1..Len(report_def.fields) |-> DisplayName(report_def.fields[j])]

RECURSIVE StaticContents(_)
StaticContents(elements) ==
    IF elements = <<>> THEN <<>>
    ELSE IF elements[1].element_type = "staticText" /\ elements[1].content # <<>>
    THEN <<elements[1].content>> \o StaticContents(Tail(elements))
    ELSE StaticContents(Tail(elements))

\* PDFRenderer._prepare_table_data
prepare_table_data ==
    IF data = <<>> \/ report_def.fields = <<>> THEN <<>>
    ELSE LET statics == IF HasBand("columnHeader")
                        THEN StaticContents(report_def.bands["columnHeader"].elements)
                        ELSE <<>>
             header_row == IF statics # <<>> THEN statics ELSE FieldHeaderRow
         IN <<header_row>> \o TableRows(data)

\* PDFRenderer._prepare_group_table_data
prepare_group_table_data(group_rows) ==
    IF group_rows = <<>> \/ report_def.fields = <<>> THEN <<>>
    ELSE <<FieldHeaderRow>> \o TableRows(group_rows)

\* PDFRenderer._render_pdf_title: one Paragraph per static text of the title band
PdfTitleStory ==
    LET texts == StaticContents(report_def.bands["title"].elements)
    IN [i \in 1..Len(texts) |-> Paragraph("title", texts[i])]

\* the loop of PDFRenderer._render_pdf_grouped_content
RECURSIVE PdfGroupStory(_, _)
PdfGroupStory(groups, field) ==
    IF groups = <<>> THEN <<>>
    ELSE LET g == groups[1]
             table_data == prepare_group_table_data(g.rows)
         IN <<Paragraph("groupHeader", DisplayName(field) \o <<":", " ">> \o PyStr(g.key))>>
            \o (IF table_data # <<>> THEN <<Table(table_data)>> ELSE <<>>)
            \o PdfGroupStory(Tail(groups), field)

\* PDFRenderer._render_pdf_simple_content
PdfSimpleStory == IF prepare_table_data # <<>> THEN <<Table(prepare_table_data)>> ELSE <<>>

\* PDFRenderer._render_pdf_content
PdfContentStory ==
    IF GroupField # <<>> THEN PdfGroupStory(group_by(data, GroupField), GroupField) ELSE PdfSimpleStory

\* PDFRenderer._render_pdf_summary: one "Total <Field>: $<sum>" Paragraph per Sum variable
RECURSIVE PdfSummaryStory(_)
PdfSummaryStory(varDefs) ==
    IF varDefs = <<>> THEN <<>>
    ELSE LET v == varDefs[1]
             field == SearchFieldRef(v.expression)
         IN (IF v.calculation = "Sum" /\ field # <<>>
             THEN <<Paragraph("summary", sTotal \o <<" ">> \o DisplayName(field) \o <<":", " ", "$">>
                                         \o Format2f(calculate_sum(data, field).n))>>
             ELSE <<>>)
            \o PdfSummaryStory(Tail(varDefs))

\* the bands a story names, in order
BandsOf(story) == [i \in 1..Len(story) |-> story[i].band]

\* JasperReport.generate_pdf
GeneratePdf ==
    Generate("generate_pdf", "pdf", "pdfTitle", BindData(data, database_engine, database, report_def.query))

\* PDFRenderer.render: the title band
PdfRenderTitle ==
    /\ pc = "pdfTitle"
    /\ IF HasBand("title")
       THEN /\ output' = output \o PdfTitleStory
            /\ trace' = Append(trace, "title")
       ELSE UNCHANGED <<output, trace>>
    /\ pc' = "pdfPageHeader"
    /\ UNCHANGED <<source, report_def, data, parameters, variables, fmt, grouped_data, gi, ri, evaluator, evalCall, facadeVars>>

\* PDFRenderer.render: the page header band; _render_pdf_page_header returns []
PdfRenderPageHeader ==
    /\ pc = "pdfPageHeader"
    /\ IF HasBand("pageHeader")
       THEN trace' = Append(trace, "pageHeader")
       ELSE UNCHANGED trace
    /\ pc' = "pdfContent"
    /\ UNCHANGED <<source, report_def, data, parameters, variables, fmt, output, grouped_data, gi, ri, evaluator, evalCall, facadeVars>>

\* PDFRenderer.render: the content, grouped or simple
PdfRenderContent ==
    /\ pc = "pdfContent"
    /\ IF data # <<>>
       THEN /\ output' = output \o PdfContentStory
            /\ trace' = trace \o BandsOf(PdfContentStory)
       ELSE UNCHANGED <<output, trace>>
    /\ pc' = "pdfSummary"
    /\ UNCHANGED <<source, report_def, data, parameters, variables, fmt, grouped_data, gi, ri, evaluator, evalCall, facadeVars>>

\* PDFRenderer.render: the summary band
PdfRenderSummary ==
    /\ pc = "pdfSummary"
    /\ IF HasBand("summary")
       THEN /\ output' = output \o PdfSummaryStory(report_def.variables)
            /\ trace' = Append(trace, "summary")
       ELSE UNCHANGED <<output, trace>>
    /\ pc' = "pdfPageFooter"
    /\ UNCHANGED <<source, report_def, data, parameters, variables, fmt, grouped_data, gi, ri, evaluator, evalCall, facadeVars>>

\* PDFRenderer.render: the page footer band; _render_pdf_page_footer returns []
PdfRenderPageFooter ==
    /\ pc = "pdfPageFooter"
    /\ IF HasBand("pageFooter")
       THEN trace' = Append(trace, "pageFooter")
       ELSE UNCHANGED trace
    /\ pc' = "done"
    /\ UNCHANGED <<source, report_def, data, parameters, variables, fmt, output, grouped_data, gi, ri, evaluator, evalCall, facadeVars>>

(***************************************************************************)
(* JasperReport: validate_report, preview_data, get_database_schema        *)
(***************************************************************************)

\* most facade operations called on one report
MaxCalls == 2

\* largest row limit passed to preview_data
MaxLimit == 2

\* the order in which _parse_bands fills report_def.bands
band_type_order ==
    <<"title", "pageHeader", "columnHeader", "detail", "columnFooter", "pageFooter", "lastPageFooter", "summary">>

\* re.findall(r'\$F\{([^}]+)\}', s): the names of the field references of s, in order
RECURSIVE FindFieldRefs(_)
FindFieldRefs(s) ==
    IF s = <<>> THEN <<>>
    ELSE IF RefClose(s, "F") > 0
    THEN <<SubSeq(s, 4, RefClose(s, "F") - 1)>> \o FindFieldRefs(Drop(s, RefClose(s, "F") + 1))
    ELSE FindFieldRefs(Drop(s, 2))

Issue(text, field) == [text |-> text, field |-> field]

\* any(f.name == field_ref for f in self.report_def.fields)
IsField(fields, name) == \E i \in 1..Len(fields) : fields[i] = name

\* one issue for every reference of refs that names no field
RECURSIVE RefIssues(_, _)
RefIssues(refs, fields) ==
    IF refs = <<>> THEN <<>>
    ELSE (IF IsField(fields, refs[1]) THEN <<>> ELSE <<Issue("Referenced field not defined", refs[1])>>)
         \o RefIssues(Tail(refs), fields)

\* the field-usage check over the elements of one band
RECURSIVE ElementIssues(_, _)
ElementIssues(elements, fields) ==
    IF elements = <<>> THEN <<>>
    ELSE RefIssues(FindFieldRefs(elements[1].expression), fields) \o ElementIssues(Tail(elements), fields)

\* the field-usage check over self.report_def.bands.values(), from the i-th band kind on
RECURSIVE BandIssues(_, _)
BandIssues(rd, i) ==
    IF i > Len(band_type_order) THEN <<>>
    ELSE (IF band_type_order[i] \in DOMAIN rd.bands
          THEN ElementIssues(rd.bands[band_type_order[i]].elements, rd.fields)
          ELSE <<>>)
         \o BandIssues(rd, i + 1)

\* the issues of validate_report, in the order they are appended
Issues(rd, d, engine, db) ==
    (IF rd.query = <<>> /\ d = <<>> THEN <<Issue("No query defined and no data provided", <<>>)>> ELSE <<>>)
    \o BandIssues(rd, 1)
    \o (IF engine.present /\ ~test_connection(engine, db).ok
        THEN <<Issue("Database connection test failed", <<>>)>>
        ELSE <<>>)

\* the warnings of validate_report
Warnings(rd) ==
    (IF rd.fields = <<>> THEN <<"No fields defined in report">> ELSE <<>>)
    \o (IF "detail" \notin DOMAIN rd.bands THEN <<"No detail band defined">> ELSE <<>>)

\* db_status of validate_report
DatabaseStatus(engine, db) ==
    IF ~engine.present THEN "Not configured"
    ELSE IF test_connection(engine, db).ok THEN "Connected"
    ELSE "Connection failed"

\* validate_report with the warnings counted against valid as well
ValidationCountingWarnings(issues, warnings, status) ==
    [valid |-> Len(issues) = 0 /\ Len(warnings) = 0, issues |-> issues, warnings |-> warnings,
     database_status |-> status]

\* the dictionary validate_report returns
Validation(issues, warnings, status) ==
    [valid |-> Len(issues) = 0, issues |-> issues, warnings |-> warnings, database_status |-> status]

validate_report(rd, d, engine, db) ==
    Validation(Issues(rd, d, engine, db), Warnings(rd), DatabaseStatus(engine, db))

\* JasperReport.validate_report
ValidateReport ==
    /\ pc = "idle"
    /\ call.n < MaxCalls
    /\ call' = [NoCall EXCEPT !.op = "validate_report", !.n = call.n + 1,
                              !.validation = validate_report(report_def, data, database_engine, database)]
    /\ database_engine' = IF database_engine.present
                          THEN test_connection(database_engine, database).engine
                          ELSE database_engine
    /\ UNCHANGED <<source, report_def, data, parameters, evaluator, evalCall, renderVars, database, sessionVars>>

\* the query preview_data executes
PreviewQuery(query, db_type, limit) ==
    IF ~Contains(Upper(query), sLIMIT) /\ db_type \in {"sqlite", "mysql", "postgresql"}
    THEN query \o LimitClause(limit)
    ELSE query

\* preview_data without its except clause: the exception of a failed query reaches the caller
PreviewOutcomeUncaught(r, query, limit) ==
    [engine |-> r.engine, rows |-> IF r.ok THEN Take(r.rows, limit) ELSE <<>>, sent |-> <<query>>,
     raised |-> IF r.ok THEN "none" ELSE "DatabaseError"]

\* the try block of preview_data: the first limit rows of the result, [] on any exception
PreviewOutcome(r, query, limit) ==
    [engine |-> r.engine, rows |-> IF r.ok THEN Take(r.rows, limit) ELSE <<>>, sent |-> <<query>>,
     raised |-> "none"]

\* JasperReport.preview_data: rows is what it returns, raised what it raises
preview_data(d, engine, db, query, limit) ==
    IF d # <<>>
    THEN [engine |-> engine, rows |-> Take(d, limit), sent |-> <<>>, raised |-> "none"]
    ELSE IF engine.present /\ query # <<>>
    THEN PreviewOutcome(engine_execute_query(engine, db, PreviewQuery(query, engine.db_type, limit)),
                        PreviewQuery(query, engine.db_type, limit), limit)
    ELSE [engine |-> engine, rows |-> <<>>, sent |-> <<>>, raised |-> "none"]

PreviewWith(limit, preview) ==
    /\ call' = [NoCall EXCEPT !.op = "preview_data", !.n = call.n + 1, !.limit = limit,
                              !.rows = preview.rows, !.raised = preview.raised]
    /\ database_engine' = preview.engine
    /\ database' = [database EXCEPT !.log = @ \o preview.sent]

\* JasperReport.preview_data(limit)
PreviewData ==
    /\ pc = "idle"
    /\ call.n < MaxCalls
    /\ \E limit \in 0..MaxLimit :
            PreviewWith(limit, preview_data(data, database_engine, database, report_def.query, limit))
    /\ UNCHANGED <<source, report_def, data, parameters, evaluator, evalCall, renderVars, sessionVars>>

\* JasperReport.get_database_schema: get_tables, then get_table_schema per
\* table; an {'error': ...} dictionary without an engine or when get_tables raises
GetDatabaseSchema ==
    /\ pc = "idle"
    /\ call.n < MaxCalls
    /\ call' = [NoCall EXCEPT !.op = "get_database_schema", !.n = call.n + 1,
                              !.error = ~database_engine.present
                                        \/ ~engine_get_tables(database_engine, database).ok]
    /\ database_engine' = IF database_engine.present
                          THEN engine_get_tables(database_engine, database).engine
                          ELSE database_engine
    /\ UNCHANGED <<source, report_def, data, parameters, evaluator, evalCall, renderVars, database, sessionVars>>

\* JasperReport.__exit__: the end of a with-block on the report
Exit ==
    /\ pc \in {"idle", "done", "raised"}
    /\ ~(pc = "done" /\ call.op \in {"save_report", "generate_report"})
    /\ pc' = "exited"
    /\ database_engine' = IF database_engine.present THEN disconnect(database_engine) ELSE database_engine
    /\ UNCHANGED <<source, report_def, data, parameters, variables, fmt, output, trace, grouped_data, gi, ri,
                   evaluator, evalCall, database, call, sessionVars>>

(***************************************************************************)
(* ExpressionEvaluator.evaluate as an operation                            *)
(***************************************************************************)

\* one call evaluator.evaluate(expression)
EvaluateCall ==
    /\ evalCall.pc = "ready"
    /\ evalCall' = [evalCall EXCEPT
                        !.pc = "done",
                        !.result = Evaluate(evalCall.expression, evaluator.data, evaluator.variables,
                                            evaluator.parameters)]
    /\ UNCHANGED <<source, report_def, data, parameters, evaluator, renderVars, facadeVars>>

(***************************************************************************)
(* Bounded inputs                                                          *)
(***************************************************************************)

\* most bands a layout template declares
MaxBands == 2

\* most rows bound to an aggregation template
MaxRows == 3

BoundedSeqs(S, n) == UNION {[1..k -> S] : k \in 0..n}

SrcStatic(text) == [tag |-> "staticText", reportElement |-> TRUE, text |-> text]

SrcField(expression) == [tag |-> "textField", reportElement |-> TRUE, text |-> expression]

\* the static text a band of the model carries
BandLabel(b) ==
    CASE b = "title" -> <<"T", "I">>
      [] b = "pageHeader" -> <<"P", "H">>
      [] b = "columnHeader" -> <<"C", "H">>
      [] b = "detail" -> <<"D", "E">>
      [] b = "columnFooter" -> <<"C", "F">>
      [] b = "pageFooter" -> <<"P", "F">>
      [] b = "lastPageFooter" -> <<"L", "F">>
      [] b = "summary" -> <<"S", "U">>
      [] b = "groupHeader" -> <<"G", "H">>
      [] OTHER -> <<"G", "F">>

PageExpression == Quoted(sPage) \o PlusText \o VRef(nPageNumber)

\* the elements of a non-empty band, in document order
StdElements(b) ==
    CASE b = "detail" ->
            <<SrcField(FRef(nG)), SrcStatic(BandLabel(b)), SrcField(FRef(nAmount))>>
      [] b \in {"groupFooter", "summary"} ->
            <<SrcField(VRef(nT)), SrcStatic(BandLabel(b))>>
      [] b \in {"pageFooter", "lastPageFooter"} ->
            <<SrcField(PageExpression), SrcField(FRef(nG)), SrcStatic(BandLabel(b))>>
      [] OTHER ->
            <<SrcField(<<" ">> \o FRef(nG) \o <<" ">>), SrcField(PRef(nP)), SrcStatic(BandLabel(b))>>

SrcBand(elements) == [height |-> 30, elements |-> elements]

Variable(name, calculation, reset_type) ==
    [name |-> name, calculation |-> calculation, expression |-> FRef(nAmount),
     reset_type |-> reset_type, reset_group |-> IF reset_type = "Group" THEN "G" ELSE "none"]

Calculations == {"Nothing", "Sum", "Count", "Average", "Min", "Max"}

GroupG == [name |-> "G", expression |-> FRef(nG)]

\* a group whose expression names no field
GroupConst == [name |-> "G", expression |-> Quoted(sX)]

Row(g, amount) == (nG :> PyStrVal(g)) @@ (nAmount :> PyInt(amount))

RowValues == {Row(sX, 10), Row(sX, 5), Row(sY, 7)}

Source(bands, groups, variableDefs) ==
    [query |-> <<>>, fields |-> <<nG, nAmount>>, variables |-> variableDefs, groups |-> groups, bands |-> bands,
     markup |-> "wellformed", pageWidth |-> <<"5", "9", "5">>]

\* layout templates: any choice of at most MaxBands bands, each empty or with elements
LayoutBands ==
    UNION {{[b \in S |-> SrcBand(IF b \in E THEN <<>> ELSE StdElements(b))] : E \in SUBSET S} :
                S \in {T \in SUBSET SourceBandKinds : Cardinality(T) <= MaxBands}}

\* the aggregation template: detail, group header and footer, summary
AggBands ==
    [b \in {"detail", "groupHeader", "groupFooter", "summary"} |->
        SrcBand(CASE b = "detail" -> <<SrcField(FRef(nG)), SrcField(FRef(nAmount)), SrcField(VRef(nT))>>
                  [] b = "groupHeader" -> <<SrcField(FRef(nG))>>
                  [] OTHER -> <<SrcField(VRef(nT))>>)]

IdleEvalCall == [expression |-> <<>>, pc |-> "none", result |-> <<>>]

InitRenderer(p) ==
    /\ variables = EmptyDict
    /\ fmt = "none"
    /\ pc = p
    /\ output = <<>>
    /\ trace = <<>>
    /\ grouped_data = <<>>
    /\ gi = 0
    /\ ri = 0

InitLayout ==
    /\ \E bands \in LayoutBands, groups \in {<<>>, <<GroupG>>, <<GroupConst>>} :
            source = Source(bands, groups, <<Variable(nT, "Sum", "Report")>>)
    /\ data \in {<<>>, <<Row(sX, 10)>>}
    /\ parameters = (nP :> PyStrVal(sPV))

InitAggregation ==
    /\ \E groups \in {<<>>, <<GroupG>>}, calculation \in Calculations, reset_type \in {"Report", "Group"} :
            source = Source(AggBands, groups, <<Variable(nT, calculation, reset_type)>>)
    /\ data \in BoundedSeqs(RowValues, MaxRows)
    /\ parameters = EmptyDict

\* a report built from its source, data and parameters bound, nothing generated yet
Init ==
    /\ InitLayout \/ InitAggregation
    /\ report_def = Parse(source)
    /\ InitRenderer("idle")
    /\ evaluator = NoEvaluator
    /\ evalCall = IdleEvalCall
    /\ database_engine = NoEngine
    /\ database = NoDatabase
    /\ call = NoCall
    /\ other = NoInstance
    /\ previous = NoDocument
    /\ outcome = NoOutcome

Next ==
    \/ GenerateHtml
    \/ RenderTitle
    \/ RenderPageHeader
    \/ RenderContent
    \/ RenderGroupHeader
    \/ RenderGroupDetailRow
    \/ RenderGroupFooter
    \/ RenderSimpleDetailRow
    \/ RenderPageFooter
    \/ RenderSummary
    \/ GeneratePdf
    \/ PdfRenderTitle
    \/ PdfRenderPageHeader
    \/ PdfRenderContent
    \/ PdfRenderSummary
    \/ PdfRenderPageFooter

Spec == Init /\ [][Next]_vars

nMissing == <<"m", "i", "s", "s", "i", "n", "g">>

nLost == <<"l", "o", "s", "t">>

\* a query the data source rejects
sBadQuery == <<"S", "E", "L", "E", "C">>

\* queryString texts: none, blank, a plain query, one that limits its rows already, a malformed one
QueryTexts == {<<>>, <<" ", " ">>, sSelect, sSelect \o <<" ", "l", "i", "m", "i", "t", " ", "1">>, sBadQuery}

WithQuery(src, fields, query) == [src EXCEPT !.query = query, !.fields = fields]

\* a detail band on the declared fields
PlainTemplate ==
    Source([b \in {"detail"} |-> SrcBand(<<SrcField(FRef(nG)), SrcField(FRef(nAmount))>>)], <<>>, <<>>)

\* no fields, no detail band
BareTemplate == WithQuery(Source([b \in {"title"} |-> SrcBand(<<SrcStatic(BandLabel(b))>>)], <<>>, <<>>), <<>>, <<>>)

\* field references that name no field: one in the detail band, one in the group header
DanglingTemplate ==
    Source([b \in {"detail", "groupHeader"} |->
                SrcBand(IF b = "detail"
                        THEN <<SrcField(FRef(nG)), SrcField(FRef(nMissing) \o <<" ">> \o FRef(nAmount))>>
                        ELSE <<SrcField(FRef(nLost))>>)],
           <<GroupG>>, <<>>)

\* the only reference that names no field sits in the group header
LostTemplate ==
    Source([b \in {"detail", "groupHeader"} |->
                SrcBand(IF b = "detail" THEN <<SrcField(FRef(nG))>> ELSE <<SrcField(FRef(nLost))>>)],
           <<GroupG>>, <<>>)

\* a grouped report with a Sum variable
GroupedTemplate == Source(AggBands, <<GroupG>>, <<Variable(nT, "Sum", "Group")>>)

FacadeTemplates == {PlainTemplate, BareTemplate, DanglingTemplate, LostTemplate, GroupedTemplate}

\* the rows of the table behind the data source
TableRows3 == <<Row(sX, 10), Row(sX, 5), Row(sY, 7)>>

\* a report with or without bound rows and with or without a data source,
\* which can or cannot be reached
InitFacade ==
    /\ \E template \in FacadeTemplates, query \in QueryTexts :
            source = [template EXCEPT !.query = query]
    /\ report_def = Parse(source)
    /\ data \in {<<>>, <<Row(sX, 10)>>, <<Row(sX, 10), Row(sY, 7)>>}
    /\ parameters = EmptyDict
    /\ InitRenderer("idle")
    /\ evaluator = NoEvaluator
    /\ evalCall = IdleEvalCall
    /\ \/ database_engine = NoEngine /\ database = NoDatabase
       \/ /\ database_engine \in {DatabaseEngine("sqlite"), DatabaseEngine("mysql")}
          /\ database \in {[reachable |-> r, rows |-> rows, log |-> <<>>] :
                                r \in BOOLEAN, rows \in {<<>>, TableRows3}}
    /\ call = NoCall
    /\ other = NoInstance
    /\ previous = NoDocument
    /\ outcome = NoOutcome

NextFacade ==
    \/ Next
    \/ ValidateReport
    \/ PreviewData
    \/ GetDatabaseSchema
    \/ Exit

SpecFacade == InitFacade /\ [][NextFacade]_vars

(***************************************************************************)
(* JasperReport: a session of operations on a newly constructed report     *)
(***************************************************************************)

\* the row lists handed to set_data
SessionRows == {<<Row(sX, 10)>>, <<Row(sX, 10), Row(sY, 7)>>}

\* the dictionaries handed to set_parameters
SessionParameters == {(nP :> PyStrVal(sPV))}

\* connection strings by their scheme: two the engine knows, one it does not
ConnectionStrings == {"sqlite", "oracle"}

\* DatabaseEngine._detect_db_type: the kind, or DatabaseError
detect_db_type(connection_string) ==
    IF connection_string \in {"sqlite", "mysql", "postgresql"} THEN connection_string ELSE "unsupported"

\* a set_database_connection that drops the configured engine before it builds the new one
set_database_connection_dropping(engine, connection_string) ==
    IF detect_db_type(connection_string) = "unsupported"
    THEN [engine |-> NoEngine, raised |-> "DatabaseError"]
    ELSE [engine |-> DatabaseEngine(detect_db_type(connection_string)), raised |-> "none"]

\* JasperReport.set_database_connection: self.database_engine is assigned only
\* when DatabaseEngine(connection_string) returned
set_database_connection(engine, connection_string) ==
    IF detect_db_type(connection_string) = "unsupported"
    THEN [engine |-> engine, raised |-> "DatabaseError"]
    ELSE [engine |-> DatabaseEngine(detect_db_type(connection_string)), raised |-> "none"]

\* another instance when set_data on this one assigns the data of every instance
OtherSharingData(o, rows) == IF o.present THEN [o EXCEPT !.data = rows] ELSE o

\* another instance under "self.data = data.copy()" on this one: the
\* attribute of this instance is rebound, no other object is written
OtherAfterSetData(o, rows) == o

\* JasperReport.set_data
SetData ==
    /\ pc = "idle"
    /\ call.n < MaxCalls
    /\ \E rows \in SessionRows :
            /\ data' = rows
            /\ other' = OtherAfterSetData(other, rows)
    /\ call' = [NoCall EXCEPT !.op = "set_data", !.n = call.n + 1]
    /\ UNCHANGED <<source, report_def, parameters, evaluator, evalCall, renderVars, database_engine, database,
                   previous, outcome>>

\* JasperReport.set_parameters
SetParameters ==
    /\ pc = "idle"
    /\ call.n < MaxCalls
    /\ \E ps \in SessionParameters : parameters' = ps
    /\ call' = [NoCall EXCEPT !.op = "set_parameters", !.n = call.n + 1]
    /\ UNCHANGED <<source, report_def, data, evaluator, evalCall, renderVars, database_engine, database,
                   sessionVars>>

SetConnectionWith(configured) ==
    /\ database_engine' = configured.engine
    /\ call' = [NoCall EXCEPT !.op = "set_database_connection", !.n = call.n + 1, !.raised = configured.raised]

\* JasperReport.set_database_connection
SetDatabaseConnection ==
    /\ pc = "idle"
    /\ call.n < MaxCalls
    /\ \E cs \in ConnectionStrings : SetConnectionWith(set_database_connection(database_engine, cs))
    /\ UNCHANGED <<source, report_def, data, parameters, evaluator, evalCall, renderVars, database, sessionVars>>

ExecuteQueryWith(bound) ==
    /\ database_engine' = bound.engine
    /\ database' = [database EXCEPT !.log = @ \o bound.sent]
    /\ data' = IF bound.raised = "none" THEN bound.rows ELSE data
    /\ call' = [NoCall EXCEPT !.op = "execute_query", !.n = call.n + 1, !.raised = bound.raised]

\* JasperReport.execute_query called by the user
ExecuteQuery ==
    /\ pc = "idle"
    /\ call.n < MaxCalls
    /\ ExecuteQueryWith(execute_query(database_engine, database, report_def.query))
    /\ UNCHANGED <<source, report_def, parameters, evaluator, evalCall, renderVars, sessionVars>>

\* JasperReport.get_report_info: a dictionary read off the report definition
GetReportInfo ==
    /\ pc = "idle"
    /\ call.n < MaxCalls
    /\ call' = [NoCall EXCEPT !.op = "get_report_info", !.n = call.n + 1]
    /\ UNCHANGED <<source, report_def, data, parameters, evaluator, evalCall, renderVars, database_engine,
                   database, sessionVars>>

\* the document a generate call returned, with the rows and parameters it was rendered from
Document(f, out, d, ps) == [present |-> TRUE, fmt |-> f, output |-> out, data |-> d, parameters |-> ps]

\* generate_html / generate_pdf hands its result, or its exception, to the
\* caller, who may go on calling
Return ==
    /\ pc \in {"done", "raised"}
    /\ ~(pc = "done" /\ call.op \in {"save_report", "generate_report"})
    /\ call.n <= MaxCalls
    /\ pc' = "idle"
    /\ previous' = IF pc = "done" THEN Document(fmt, output, data, parameters) ELSE previous
    /\ UNCHANGED <<source, report_def, data, parameters, variables, fmt, output, trace, grouped_data, gi, ri,
                   evaluator, evalCall, database_engine, database, call, other, outcome>>

\* a grouped report with a query, a bare one without, a plain one whose query is malformed
SessionTemplates ==
    {[GroupedTemplate EXCEPT !.query = sSelect], BareTemplate, [PlainTemplate EXCEPT !.query = sBadQuery]}

\* source texts that cannot be parsed: one with an unclosed tag, an empty one,
\* a well-formed one whose pageWidth is no number
BrokenSources ==
    {[GroupedTemplate EXCEPT !.markup = "unclosed"], [BareTemplate EXCEPT !.markup = "empty"],
     [PlainTemplate EXCEPT !.pageWidth = <<"a">>]}

\* JasperReport.__init__ with jrxml_content: JasperError on empty content,
\* otherwise _parse_jrxml, which hands on the parser's exception as JRXMLParseError
new_report(src) ==
    IF src.markup = "empty"
    THEN [raised |-> "JasperError", report_def |-> NoReport]
    ELSE parse(src)

ConstructedWith(op, parsed, ready) ==
    /\ report_def' = parsed.report_def
    /\ call' = [NoCall EXCEPT !.op = op, !.raised = parsed.raised]
    /\ pc' = IF parsed.raised = "none" THEN ready ELSE "failed"

\* report = JasperReport(jrxml_content=source): the report exists ("idle")
\* only when the constructor returned
NewReport ==
    /\ pc = "new"
    /\ ConstructedWith("__init__", new_report(source), "idle")
    /\ UNCHANGED <<source, data, parameters, variables, fmt, output, trace, grouped_data, gi, ri,
                   evaluator, evalCall, database_engine, database, sessionVars>>

\* JRXMLParser().parse(source) called on its own
ParseSource ==
    /\ pc = "new"
    /\ ConstructedWith("parse", parse(source), "parsed")
    /\ UNCHANGED <<source, data, parameters, variables, fmt, output, trace, grouped_data, gi, ri,
                   evaluator, evalCall, database_engine, database, sessionVars>>

\* output_format / format arguments: the two formats the library renders, in
\* either case, and one it does not
sHtml == <<"h", "t", "m", "l">>

sPdf == <<"p", "d", "f">>

sCsv == <<"c", "s", "v">>

Formats == {sHtml, sPdf, <<"P", "D", "F">>, sCsv}

\* save_report on a format that is neither 'html' nor 'pdf': JasperError
\* before anything is generated or opened
SaveUnsupported ==
    /\ call' = [NoCall EXCEPT !.op = "save_report", !.n = call.n + 1, !.raised = "JasperError"]
    /\ pc' = "raised"
    /\ UNCHANGED <<source, report_def, data, parameters, variables, fmt, output, trace, grouped_data, gi, ri,
                   evaluator, evalCall, database_engine, database>>

\* save_report up to the start of rendering: format.lower() picks the generate call
SaveAs(format) ==
    IF Lower(format) = sHtml
    THEN StartRender("save_report", "html", "title", BindData(data, database_engine, database, report_def.query))
    ELSE IF Lower(format) = sPdf
    THEN StartRender("save_report", "pdf", "pdfTitle", BindData(data, database_engine, database, report_def.query))
    ELSE SaveUnsupported

\* JasperReport.save_report(output_path, format)
SaveReport ==
    /\ pc = "idle"
    /\ call.n < MaxCalls
    /\ \E format \in Formats :
            /\ SaveAs(format)
            /\ outcome' = [outcome EXCEPT !.format = format]
    /\ UNCHANGED <<other, previous>>

\* save_report once the content is generated: open(output_path, 'wb') and
\* write; a path that cannot be opened gives JasperError and leaves no bytes
WriteFile ==
    /\ pc = "done"
    /\ call.op = "save_report"
    /\ \/ outcome' = [outcome EXCEPT !.file = [present |-> TRUE, output |-> output]] /\ pc' = "idle" /\ call' = call
       \/ outcome' = outcome /\ pc' = "raised" /\ call' = [call EXCEPT !.raised = "JasperError"]
    /\ UNCHANGED <<source, report_def, data, parameters, variables, fmt, output, trace, grouped_data, gi, ri,
                   evaluator, evalCall, database_engine, database, other, previous>>

ErrorMessageMissing(raised) == "none"

\* the message generate_report returns for an exception
ErrorMessage(raised) ==
    CASE raised = "JRXMLParseError" -> "JRXML parsing error"
      [] raised = "DatabaseError" -> "Database error"
      [] raised = "RenderError" -> "Rendering error"
      [] OTHER -> "Unexpected error"

\* generate_report failed before rendering
Failed(raised, rd, engine, ps) ==
    [raised |-> raised, report_def |-> rd, engine |-> engine, parameters |-> ps, rows |-> <<>>, sent |-> <<>>]

\* generate_report after set_parameters: the binding step of the generate call
Bound(rd, ps, bound) ==
    [raised |-> bound.raised, report_def |-> rd, engine |-> bound.engine, parameters |-> ps,
     rows |-> bound.rows, sent |-> bound.sent]

\* generate_report after the constructor: set_database_connection when a
\* connection string is given, set_parameters when parameters are given
Configured(rd, configured, ps, db) ==
    IF configured.raised # "none"
    THEN Failed(configured.raised, rd, NoEngine, EmptyDict)
    ELSE Bound(rd, ps, BindData(<<>>, configured.engine, db, rd.query))

\* PyJasperIntegration.generate_report from its first statement to the start
\* of rendering, or to the exception that ends the try block
Prelude(made, connection_string, ps, db) ==
    IF made.raised # "none"
    THEN Failed(made.raised, NoReport, NoEngine, EmptyDict)
    ELSE Configured(made.report_def,
                    IF connection_string = "none"
                    THEN [engine |-> NoEngine, raised |-> "none"]
                    ELSE set_database_connection(NoEngine, connection_string),
                    ps, db)

\* the renderer generate_report picks: PDF for 'pdf' in any case, HTML for everything else
IntegrationFormat(format) == IF Lower(format) = sPdf THEN "pdf" ELSE "html"

GenerateReportWith(format, p) ==
    /\ report_def' = p.report_def
    /\ database_engine' = p.engine
    /\ parameters' = p.parameters
    /\ data' = p.rows
    /\ database' = [database EXCEPT !.log = @ \o p.sent]
    /\ call' = [NoCall EXCEPT !.op = "generate_report", !.n = call.n + 1]
    /\ outcome' = [outcome EXCEPT !.format = format,
                                  !.error = IF p.raised = "none" THEN "none" ELSE ErrorMessage(p.raised)]
    /\ fmt' = IF p.raised = "none" THEN IntegrationFormat(format) ELSE fmt
    /\ pc' = IF p.raised # "none" THEN "returned"
             ELSE IF IntegrationFormat(format) = "pdf" THEN "pdfTitle" ELSE "title"
    /\ variables' = RendererVariables(variables)
    /\ output' = <<>>
    /\ trace' = <<>>
    /\ grouped_data' = <<>>
    /\ gi' = 0
    /\ ri' = 0
    /\ UNCHANGED <<source, evaluator, evalCall, other, previous>>

\* PyJasperIntegration.generate_report(jrxml_content, connection_string,
\* output_format, parameters) up to the start of rendering
GenerateReport ==
    /\ pc = "new"
    /\ \E format \in Formats, cs \in {"none"} \cup ConnectionStrings, ps \in {EmptyDict} \cup SessionParameters :
            GenerateReportWith(format, Prelude(new_report(source), cs, ps, database))

\* generate_report returns (content, None); the clean-up of the HTML text
\* removes nothing from the documents of this model, which hold no
\* "fallback" or "Note:" text
ReturnContent ==
    /\ pc = "done"
    /\ call.op = "generate_report"
    /\ outcome' = [outcome EXCEPT !.content = [present |-> TRUE, output |-> output]]
    /\ pc' = "returned"
    /\ UNCHANGED <<source, report_def, data, parameters, variables, fmt, output, trace, grouped_data, gi, ri,
                   evaluator, evalCall, database_engine, database, call, other, previous>>

(***************************************************************************)
(* JasperEngine: the CSV output of the report editor (jasper_engine.py)    *)
(***************************************************************************)

\* the name sqlite3 in _get_sample_data: jasper_engine.py imports sqlite3
\* only inside _generate_html_fallback, as a local name, so the module has no
\* such global and sqlite3.connect raises NameError
Sqlite3Bound == FALSE

Departments == <<<<"I", "T">>, <<"S", "a", "l", "e", "s">>, <<"H", "R">>, <<"F", "i", "n", "a", "n", "c", "e">>, <<"M", "a", "r", "k", "e", "t", "i", "n", "g">>>>

\* one value of the i-th sample row (i from 0), chosen by the field's name
SampleValue(name, i) ==
    IF Contains(Lower(name), <<"i", "d">>) THEN PyInt(i + 1)
    ELSE IF Contains(Lower(name), <<"n", "a", "m", "e">>) THEN PyStrVal(<<"S", "a", "m", "p", "l", "e", " ", "N", "a", "m", "e", " ">> \o Digits(i + 1))
    ELSE IF Contains(Lower(name), <<"e", "m", "a", "i", "l">>)
    THEN PyStrVal(<<"u", "s", "e", "r">> \o Digits(i + 1) \o <<"@", "e", "x", "a", "m", "p", "l", "e", ".", "c", "o", "m">>)
    ELSE IF Contains(Lower(name), <<"d", "a", "t", "e">>)
    THEN PyStrVal(<<"2", "0", "2", "4", "-", "0">> \o Digits((i % 12) + 1) \o <<"-">>
                  \o (IF (i % 28) + 1 < 10 THEN <<"0">> ELSE <<>>) \o Digits((i % 28) + 1))
    ELSE IF Contains(Lower(name), sAmount) \/ Contains(Lower(name), sSalary) THEN PyInt((i + 1) * 1000 + 500)
    ELSE IF Contains(Lower(name), <<"d", "e", "p", "a", "r", "t", "m", "e", "n", "t">>) THEN PyStrVal(Departments[(i % 5) + 1])
    ELSE PyStrVal(<<"S", "a", "m", "p", "l", "e", " ">> \o name \o <<" ">> \o Digits(i + 1))

\* the five sample rows built from the field names
SampleData(fields) ==
    [i \in 1..5 |-> [name \in {fields[j] : j \in 1..Len(fields)} |-> SampleValue(name, i - 1)]]

\* the rows read from the SQLite file, when the try block gets that far
SampleQuery(db, query, fields) ==
    IF QueryOk(query) THEN QueryRows(db.rows, query)
    ELSE IF fields # <<>> THEN SampleData(fields) ELSE <<>>

\* JasperEngine._get_sample_data: the rows of the query for a sqlite:///
\* string whose file exists, sample rows when that branch is not taken or
\* raises, no rows when the template declares no field
get_sample_data(connection_string, query, fields, db) ==
    IF connection_string = "sqlite" /\ query # <<>> /\ db.reachable /\ Sqlite3Bound
    THEN SampleQuery(db, query, fields)
    ELSE IF fields # <<>> THEN SampleData(fields) ELSE <<>>

\* the query text _generate_csv_fallback reads from the queryString element
CsvQuery(text) == StripCData(Strip(text))

\* str(value) as csv.writer writes it, None as the empty string
CsvCell(value) == IF value.ty = "none" THEN <<>> ELSE PyStr(value)

\* the records written: the header, then one record per row of data, cells
\* in the order of the field declarations; nothing without fields
CsvRecords(fields, rows) ==
    IF fields = <<>> THEN <<>>
    ELSE <<[j \in 1..Len(fields) |-> DisplayName(fields[j])]>>
         \o [i \in 1..Len(rows) |->
                [j \in 1..Len(fields) |-> CsvCell(DictGet(rows[i], fields[j], PyStrVal(<<>>)))]]

\* JasperEngine._generate_csv_fallback: (bytes, None), or (None, message)
\* when ET.fromstring rejects the text
generate_csv_fallback(src, connection_string, db) ==
    IF src.markup # "wellformed"
    THEN [content |-> NoContent, error |-> "CSV generation error"]
    ELSE [content |-> [present |-> TRUE,
                       output |-> CsvRecords(src.fields,
                                             get_sample_data(connection_string, CsvQuery(src.query), src.fields, db))],
          error |-> "none"]

CsvReturn(connection_string, result) ==
    /\ outcome' = [outcome EXCEPT !.format = sCsv, !.connection = connection_string,
                                  !.content = result.content, !.error = result.error]
    /\ call' = [NoCall EXCEPT !.op = "generate_csv_fallback", !.n = call.n + 1]
    /\ pc' = "returned"
    /\ UNCHANGED <<source, report_def, data, parameters, variables, fmt, output, trace, grouped_data, gi, ri,
                   evaluator, evalCall, database_engine, database, other, previous>>

\* JasperEngine.compile_and_generate(jrxml_content, connection_string, 'csv')
GenerateCsvFallback ==
    /\ pc = "new"
    /\ \E connection_string \in {"none"} \cup ConnectionStrings :
            CsvReturn(connection_string, generate_csv_fallback(source, connection_string, database))

\* before the constructor runs: the attributes it will set first, no template
InitSession ==
    /\ source \in SessionTemplates \cup BrokenSources
    /\ report_def = NoReport
    /\ data = <<>>
    /\ parameters = EmptyDict
    /\ database_engine = NoEngine
    /\ call = NoCall
    /\ previous = NoDocument
    /\ outcome = NoOutcome
    /\ InitRenderer("new")
    /\ database \in {[reachable |-> TRUE, rows |-> TableRows3, log |-> <<>>],
                     [reachable |-> FALSE, rows |-> <<>>, log |-> <<>>]}
    /\ evaluator = NoEvaluator
    /\ evalCall = IdleEvalCall
    /\ other = NoInstance

NextSession ==
    \/ NewReport
    \/ ParseSource
    \/ NextFacade
    \/ SetData
    \/ SetParameters
    \/ SetDatabaseConnection
    \/ ExecuteQuery
    \/ GetReportInfo
    \/ Return
    \/ SaveReport
    \/ WriteFile
    \/ GenerateReport
    \/ ReturnContent
    \/ GenerateCsvFallback

SpecSession == InitSession /\ [][NextSession]_vars

(***************************************************************************)
(* Two JasperReport instances used in turn by one caller                   *)
(***************************************************************************)

\* operations called on the two instances together
MaxPairCalls == 3

\* an instance between two of its operations: its attributes, the renderer
\* of its last generate call and what that call returned
Instance(name, src, rd, d, ps) ==
    [present |-> TRUE, name |-> name, source |-> src, report_def |-> rd, data |-> d, parameters |-> ps,
     database_engine |-> NoEngine, call |-> NoCall, previous |-> NoDocument,
     variables |-> EmptyDict, fmt |-> "none", pc |-> "idle", output |-> <<>>, trace |-> <<>>,
     grouped_data |-> <<>>, gi |-> 0, ri |-> 0]

\* the instance at work, as it is set aside when the caller turns to the other one
Parked(name) ==
    [present |-> TRUE, name |-> name, source |-> source, report_def |-> report_def, data |-> data,
     parameters |-> parameters, database_engine |-> database_engine, call |-> call, previous |-> previous,
     variables |-> variables, fmt |-> fmt, pc |-> pc, output |-> output, trace |-> trace,
     grouped_data |-> grouped_data, gi |-> gi, ri |-> ri]

\* the caller turns to the other instance; every operation is synchronous, so
\* this happens between operations only
Switch ==
    /\ other.present
    /\ pc \in {"idle", "done", "raised"}
    /\ other' = Parked(3 - other.name)
    /\ source' = other.source
    /\ report_def' = other.report_def
    /\ data' = other.data
    /\ parameters' = other.parameters
    /\ database_engine' = other.database_engine
    /\ call' = other.call
    /\ previous' = other.previous
    /\ variables' = other.variables
    /\ fmt' = other.fmt
    /\ pc' = other.pc
    /\ output' = other.output
    /\ trace' = other.trace
    /\ grouped_data' = other.grouped_data
    /\ gi' = other.gi
    /\ ri' = other.ri
    /\ UNCHANGED <<evaluator, evalCall, database, outcome>>

\* the caller may still call an operation
PairBudget == other.present /\ call.n + other.call.n < MaxPairCalls

PairSetData == PairBudget /\ SetData

PairSetParameters == PairBudget /\ SetParameters

PairValidateReport == PairBudget /\ ValidateReport

PairPreviewData == PairBudget /\ PreviewData

PairGenerateHtml == PairBudget /\ GenerateHtml

\* the two instances: built from the same or different templates, each newly
\* constructed or already given rows by set_data
InitPair ==
    /\ source \in {GroupedTemplate, PlainTemplate}
    /\ report_def = Parse(source)
    /\ data \in {<<>>} \cup SessionRows
    /\ parameters = EmptyDict
    /\ database_engine = NoEngine
    /\ call = NoCall
    /\ previous = NoDocument
    /\ outcome = NoOutcome
    /\ InitRenderer("idle")
    /\ \E template \in {GroupedTemplate, PlainTemplate}, d \in {<<>>} \cup SessionRows :
            other = Instance(2, template, Parse(template), d, EmptyDict)
    /\ database = NoDatabase
    /\ evaluator = NoEvaluator
    /\ evalCall = IdleEvalCall

NextPair ==
    \/ PairSetData
    \/ PairSetParameters
    \/ PairValidateReport
    \/ PairPreviewData
    \/ PairGenerateHtml
    \/ RenderTitle
    \/ RenderPageHeader
    \/ RenderContent
    \/ RenderGroupHeader
    \/ RenderGroupDetailRow
    \/ RenderGroupFooter
    \/ RenderSimpleDetailRow
    \/ RenderPageFooter
    \/ RenderSummary
    \/ Return
    \/ Switch

SpecPair == InitPair /\ [][NextPair]_vars

\* reference names: declared, undeclared, and one carrying an apostrophe
RefNames == {nG, nAmount, nT, nP, nQuote, nPageNumber}

EvalExpressions ==
    {FRef(n) : n \in RefNames} \cup {VRef(n) : n \in RefNames} \cup {PRef(n) : n \in RefNames}
    \cup {<<>>, Quoted(sPage), PageExpression, sTotal, <<"1", "2">>,
          FRef(nG) \o PlusText \o FRef(nAmount), CDataOpen \o FRef(nG) \o CDataClose,
          <<"$", "F", "{", "}">>, FRef(nG) \o <<" ">> \o FRef(nAmount), <<" ">> \o FRef(nG) \o <<" ">>,
          Quoted(sX) \o <<" ">>, <<"'", "x", "'">>}

EvalRows == {EmptyDict, Row(sX, 10), (nQuote :> PyStrVal(sY))}

EvalVariables == {EmptyDict, (nT :> PyFloat(15)), PageVars}

EvalParameters == {EmptyDict, (nP :> PyStrVal(sPV))}

\* an evaluator built on some row, variable map and parameter map, about to evaluate
InitEval ==
    /\ source = Source(AggBands, <<>>, <<>>)
    /\ report_def = Parse(source)
    /\ data = <<>>
    /\ parameters = EmptyDict
    /\ InitRenderer("off")
    /\ database_engine = NoEngine
    /\ database = NoDatabase
    /\ call = NoCall
    /\ other = NoInstance
    /\ previous = NoDocument
    /\ outcome = NoOutcome
    /\ \E row \in EvalRows, vs \in EvalVariables, ps \in EvalParameters :
            evaluator = ExpressionEvaluator(row, vs, ps)
    /\ \E expression \in EvalExpressions :
            evalCall = [expression |-> expression, pc |-> "ready", result |-> <<>>]

NextEval == EvaluateCall

SpecEval == InitEval /\ [][NextEval]_vars

(***************************************************************************)
(* DataProcessor.group_by on its own (database.py)                         *)
(***************************************************************************)

\* rows handed to a DataProcessor: two keys, one of them twice, a row
\* without the key field, and a float equal to an int of another row
ProcessorRows ==
    {Row(sX, 10), Row(sX, 5), Row(sY, 7), (nAmount :> PyInt(10)), (nG :> PyStrVal(sY)) @@ (nAmount :> PyFloat(10))}

\* the fields grouped by: a text field, a number field, one no row has
ProcessorFields == {nG, nAmount, nMissing}

\* DataProcessor(data).group_by(field)
GroupBy ==
    /\ pc = "off"
    /\ call.op = "none"
    /\ \E field \in ProcessorFields :
            /\ grouped_data' = group_by(data, field)
            /\ call' = [NoCall EXCEPT !.op = "group_by", !.n = 1, !.field = field]
    /\ UNCHANGED <<source, report_def, data, parameters, variables, fmt, pc, output, trace, gi, ri,
                   evaluator, evalCall, database_engine, database, sessionVars>>

\* a DataProcessor on some list of rows
InitProcessor ==
    /\ source = Source(AggBands, <<>>, <<>>)
    /\ report_def = Parse(source)
    /\ data \in BoundedSeqs(ProcessorRows, MaxRows)
    /\ parameters = EmptyDict
    /\ InitRenderer("off")
    /\ database_engine = NoEngine
    /\ database = NoDatabase
    /\ call = NoCall
    /\ other = NoInstance
    /\ previous = NoDocument
    /\ outcome = NoOutcome
    /\ evaluator = NoEvaluator
    /\ evalCall = IdleEvalCall

NextProcessor == GroupBy

SpecProcessor == InitProcessor /\ [][NextProcessor]_vars

(***************************************************************************)
(* Properties                                                              *)
(***************************************************************************)

\* the regions of the output that band b produced, in order
RegionsOf(b) == SelectSeq(output, LAMBDA r : r.band = b)

\* every text a region shows
RegionTexts(r) ==
    IF r.cls = "Table"
    THEN UNION {{r.cells[i].content[j] : j \in 1..Len(r.cells[i].content)} : i \in 1..Len(r.cells)}
    ELSE {r.cells[i].content : i \in 1..Len(r.cells)}

OutputTexts == UNION {RegionTexts(output[i]) : i \in 1..Len(output)}

\* the maximal contiguous runs of rows with equal value of field
RECURSIVE RunsFrom(_, _, _)
RunsFrom(rows, field, runs) ==
    IF rows = <<>> THEN runs
    ELSE LET key == DictGet(rows[1], field, PyNone)
         IN RunsFrom(Tail(rows), field,
                IF runs # <<>> /\ runs[Len(runs)].key = key
                THEN [runs EXCEPT ![Len(runs)].rows = Append(@, rows[1])]
                ELSE Append(runs, [key |-> key, rows |-> <<rows[1]>>]))

AdjacentRuns(rows, field) == RunsFrom(rows, field, <<>>)

\* per row, the sum of field over the rows of its run up to and including it
RECURSIVE RunningSums(_, _, _, _, _)
RunningSums(rows, keyField, field, prevKey, acc) ==
    IF rows = <<>> THEN <<>>
    ELSE LET key == DictGet(rows[1], keyField, PyNone)
             sum == (IF key = prevKey THEN acc ELSE 0) + SumTerm(rows[1], field)
         IN <<sum>> \o RunningSums(Tail(rows), keyField, field, key, sum)

NoKey == [ty |-> "start", s |-> <<>>, n |-> 0]

RECURSIVE Flatten(_)
Flatten(groups) == IF groups = <<>> THEN <<>> ELSE groups[1].rows \o Flatten(Tail(groups))

\* the template declares exactly the variable t with this calculation and reset scope
Declares(calculation, reset_type) ==
    /\ Len(report_def.variables) = 1
    /\ report_def.variables[1].name = nT
    /\ report_def.variables[1].calculation = calculation
    /\ report_def.variables[1].reset_type = reset_type

\* the text shows the number n ("15" or "15.0")
ShowsNumber(text, n) == ParseFloat(text).ok /\ ParseFloat(text).n = n

\* C1: grouping is adjacent-equal partitioning: the groups the renderer works on
\* are the maximal contiguous runs of equal key, so rows with the same key that
\* are not adjacent are in different groups and the groups concatenated in
\* order give back the bound rows.
C1_AdjacentPartitioning ==
    grouped_data # <<>> =>
        /\ Flatten(grouped_data) = data
        /\ \A i \in 1..(Len(grouped_data) - 1) : grouped_data[i].key # grouped_data[i + 1].key
        /\ grouped_data = AdjacentRuns(data, GroupField)

\* C2: for a Sum variable reset at the group, the group footer rendered at the
\* end of each partition shows the sum of the variable's expression over exactly
\* the rows of that partition: one footer per partition, in order.
C2_GroupFooterShowsPartitionSum ==
    (/\ pc = "done"
     /\ fmt = "html"
     /\ GroupField # <<>>
     /\ Declares("Sum", "Group")
     /\ "groupFooter" \in DOMAIN source.bands
     /\ \E i \in 1..Len(source.bands["groupFooter"].elements) :
            source.bands["groupFooter"].elements[i].text = VRef(nT))
    => LET runs == AdjacentRuns(data, GroupField)
           footers == RegionsOf("groupFooter")
       IN /\ Len(footers) = Len(runs)
          /\ \A k \in 1..Len(footers) :
                \E c \in 1..Len(footers[k].cells) :
                    ShowsNumber(footers[k].cells[c].content, SumFrom(runs[k].rows, nAmount))

\* the number of groups whose footer step is over
GroupsDone == IF pc \in {"groupHeader", "groupDetail", "groupFooter"} THEN gi - 1 ELSE Len(grouped_data)

\* C3: a Report-scoped Sum variable accumulates across the whole row sequence:
\* at every group boundary its value is the sum over all rows rendered so far,
\* and after the summary it is the sum over all rows.
C3_ReportVariableAccumulates ==
    (/\ fmt = "html"
     /\ Declares("Sum", "Report")
     /\ grouped_data # <<>>
     /\ GroupsDone > 0)
    => /\ nT \in DOMAIN variables
       /\ variables[nT].n = SumFrom(Flatten(SubSeq(grouped_data, 1, GroupsDone)), nAmount)

\* C4: a group-scoped Sum variable starts from its initial value in each
\* partition and is updated once per row: the value a detail row shows for
\* $V{t} is the sum over the rows of its own partition up to that row.
C4_DetailSeesOwnPartitionOnly ==
    (/\ fmt = "html"
     /\ GroupField # <<>>
     /\ Declares("Sum", "Group")
     /\ HasBand("detail"))
    => LET details == RegionsOf("detail")
           sums == RunningSums(data, GroupField, nAmount, NoKey, 0)
           elements == report_def.bands["detail"].elements
       IN \A k \in 1..Len(details) : \A c \in 1..Len(elements) :
            elements[c].expression = VRef(nT) => ShowsNumber(details[k].cells[c].content, sums[k])

Amounts == {SumTerm(data[i], nAmount) : i \in 1..Len(data)}

\* C5: every calculation kind is computed: after the summary a Report-scoped
\* variable of kind Count, Average, Min or Max holds the row count, the mean,
\* the minimum or the maximum of its expression over all rows.
C5_EveryCalculationComputed ==
    (/\ pc = "done"
     /\ fmt = "html"
     /\ HasBand("summary")
     /\ data # <<>>
     /\ \E calculation \in {"Count", "Average", "Min", "Max"} : Declares(calculation, "Report"))
    => /\ nT \in DOMAIN variables
       /\ LET calculation == report_def.variables[1].calculation
              value == variables[nT].n
          IN CASE calculation = "Count" -> value = Len(data)
               [] calculation = "Average" -> value * Len(data) = SumFrom(data, nAmount)
               [] calculation = "Min" -> value \in Amounts /\ \A a \in Amounts : value <= a
               [] OTHER -> value \in Amounts /\ \A a \in Amounts : value >= a

\* the place of a band kind in the fixed band order
BandRank(b) ==
    CASE b = "title" -> 1
      [] b = "pageHeader" -> 2
      [] b = "columnHeader" -> 3
      [] b \in {"groupHeader", "detail", "groupFooter"} -> 4
      [] b = "columnFooter" -> 5
      [] b = "pageFooter" -> 6
      [] b = "lastPageFooter" -> 6
      [] OTHER -> 7

\* C6: every renderer visits the bands in the same fixed order: title,
\* pageHeader, columnHeader, the groups and detail rows, columnFooter,
\* pageFooter, summary.
C6_FixedBandOrder ==
    \A i, j \in 1..Len(trace) : i < j => BandRank(trace[i]) <= BandRank(trace[j])

\* C7: with at least one bound row, the literal content of every StaticText of
\* every band the template declares appears in the output.
C7_StaticTextAppears ==
    (pc = "done" /\ data # <<>>) =>
        \A b \in DOMAIN source.bands : \A i \in 1..Len(source.bands[b].elements) :
            LET e == source.bands[b].elements[i]
            IN e.tag = "staticText" => \E text \in OutputTexts : Contains(text, e.text)

\* C8: a band that the template does not declare, or declares with zero
\* elements, produces no region in the output.
C8_NoRegionForEmptyBand ==
    \A k \in 1..Len(output) :
        output[k].band \in SourceBandKinds =>
            /\ output[k].band \in DOMAIN source.bands
            /\ source.bands[output[k].band].elements # <<>>

\* C9: a TextField outside the detail band is evaluated against a row-less
\* context: $F{g} is emitted as the empty string and $P{p} as the parameter's
\* value; in the detail band $F{g} is the current row's value.
C9_RowlessContext ==
    fmt = "html" =>
        \A k \in 1..Len(output) :
            LET r == output[k]
            IN (r.band \in DOMAIN report_def.bands /\ r.band # "detail") =>
                \A c \in 1..Len(r.cells) :
                    LET e == report_def.bands[r.band].elements[c]
                    IN /\ e.expression = FRef(nG) => r.cells[c].content = <<>>
                       /\ e.expression = PRef(nP) =>
                            r.cells[c].content = PyStr(DictGet(parameters, nP, PyStrVal(<<>>)))

\* the call evaluates a reference to a name that its map does not hold
AbsentReference ==
    \E n \in RefNames :
        \/ evalCall.expression = FRef(n) /\ n \notin DOMAIN evaluator.data
        \/ evalCall.expression = VRef(n) /\ n \notin DOMAIN evaluator.variables
        \/ evalCall.expression = PRef(n) /\ n \notin DOMAIN evaluator.parameters

\* C10: for every reference name, evaluating $F{name}, $V{name} or $P{name}
\* when the name is absent from the row, the variable map or the parameter map
\* returns the empty string.
C10_AbsentReferenceIsEmpty ==
    (evalCall.pc = "done" /\ AbsentReference) => evalCall.result = <<>>

\* the evaluate() call at hand is on an expression its eval step cannot evaluate:
\* not empty, not a string literal after the rewrites, and eval raises
CannotEvaluate ==
    /\ evalCall.expression # <<>>
    /\ ~(StartsWith(Rewrite(evalCall.expression), <<"\"">>) /\ EndsWith(Rewrite(evalCall.expression), <<"\"">>))
    /\ ~PyEval(Rewrite(evalCall.expression), evaluator.data, evaluator.variables, evaluator.parameters).ok

\* C11: when an expression cannot be evaluated, evaluate returns the
\* expression's own text as written in the template, not a rewritten form of it.
C11_UnevaluableReturnsLiteralText ==
    (evalCall.pc = "done" /\ CannotEvaluate) => evalCall.result = evalCall.expression

\* str() of what a reference of the model's concatenations names
RefText(d, name) == PyStr(DictGet(d, name, PyStrVal(<<>>)))

\* C12: a '+' concatenation of literals and references evaluates to the
\* concatenation of the literal text and the string form of each referenced
\* value: "Page " + $V{PAGE_NUMBER} gives "Page 1", $F{g} + $F{amount} gives
\* the two field values joined.
C12_ConcatenationEvaluates ==
    /\ (evalCall.pc = "done" /\ evalCall.expression = PageExpression)
            => evalCall.result = sPage \o RefText(evaluator.variables, nPageNumber)
    /\ (evalCall.pc = "done" /\ evalCall.expression = FRef(nG) \o PlusText \o FRef(nAmount))
            => evalCall.result = RefText(evaluator.data, nG) \o RefText(evaluator.data, nAmount)

\* the names a sequence holds
Range(f) == {f[i] : i \in DOMAIN f}

\* the $F{name} references of the template's TextFields, band by band, group
\* header and footer included, that name no declared field
DanglingReferences ==
    UNION {UNION {{n \in Range(FindFieldRefs(source.bands[b].elements[i].text)) : ~IsField(source.fields, n)} :
                    i \in {j \in DOMAIN source.bands[b].elements : source.bands[b].elements[j].tag = "textField"}} :
            b \in DOMAIN source.bands}

\* C13: validate reports a dangling field reference wherever it occurs: every
\* $F{name} of every band of the template (groupHeader and groupFooter
\* included) whose name is no declared field adds an issue mentioning the name
\* and makes valid false.
C13_ValidateReportsEveryDanglingReference ==
    call.op = "validate_report" =>
        \A n \in DanglingReferences :
            /\ ~call.validation.valid
            /\ \E i \in DOMAIN call.validation.issues : call.validation.issues[i].field = n

\* the $F{name} references in the bands of the parsed report that name no declared field
UndeclaredReferences ==
    UNION {UNION {{n \in Range(FindFieldRefs(report_def.bands[b].elements[i].expression)) :
                        ~IsField(report_def.fields, n)} :
                    i \in DOMAIN report_def.bands[b].elements} :
            b \in DOMAIN report_def.bands}

IssueTexts == {call.validation.issues[i].text : i \in DOMAIN call.validation.issues}

\* C14: validate never raises and returns valid = true exactly when the issues
\* list is empty; 'no fields declared' and 'no detail band' are warnings only
\* and never make valid false, 'no query and no data supplied' is an issue.
C14_ValidIffNoIssues ==
    call.op = "validate_report" =>
        /\ call.raised = "none"
        /\ call.validation.valid <=> call.validation.issues = <<>>
        /\ call.validation.valid <=>
                /\ ~(report_def.query = <<>> /\ data = <<>>)
                /\ UndeclaredReferences = {}
                /\ ~(database_engine.present /\ ~database.reachable)
        /\ (report_def.query = <<>> /\ data = <<>>) <=> "No query defined and no data provided" \in IssueTexts
        /\ report_def.fields = <<>> <=> "No fields defined in report" \in Range(call.validation.warnings)
        /\ "detail" \notin DOMAIN report_def.bands <=> "No detail band defined" \in Range(call.validation.warnings)
        /\ IssueTexts \cap {"No fields defined in report", "No detail band defined"} = {}

\* validate returned valid = true with both warnings on a report without fields and detail band
C14_Witness ==
    /\ call.op = "validate_report"
    /\ call.validation.valid
    /\ Len(call.validation.warnings) = 2
    /\ report_def.fields = <<>>

\* the step just taken is a call of preview_data
PreviewStep == pc = "idle" /\ call'.op = "preview_data" /\ call'.n = call.n + 1

\* C15: for every limit >= 0 preview(limit) returns at most limit rows; with
\* rows bound it returns the first min(limit, n) bound rows in order; preview
\* never changes the bound rows.
C15_PreviewAtMostLimit ==
    [][PreviewStep =>
        /\ data' = data
        /\ Len(call'.rows) <= call'.limit
        /\ data # <<>> =>
                /\ Len(call'.rows) = (IF call'.limit < Len(data) THEN call'.limit ELSE Len(data))
                /\ \A i \in 1..Len(call'.rows) : call'.rows[i] = data[i]]_vars

\* preview(1) on two bound rows returned the first of them
C15_Witness ==
    /\ call.op = "preview_data"
    /\ call.limit = 1
    /\ Len(data) = 2
    /\ call.rows = <<data[1]>>

\* C16: when no rows are bound and the query fails (the data source cannot be
\* reached or rejects the query), or there is no data source or no query,
\* preview returns the empty sequence and raises nothing.
C16_PreviewFailureIsEmpty ==
    (/\ call.op = "preview_data"
     /\ data = <<>>
     /\ \/ ~database_engine.present
        \/ report_def.query = <<>>
        \/ ~database.reachable
        \/ report_def.query = sBadQuery)
        => call.rows = <<>> /\ call.raised = "none"

\* preview sent a malformed query to a reachable data source holding rows and returned []
C16_Witness ==
    /\ call.op = "preview_data"
    /\ data = <<>>
    /\ report_def.query = sBadQuery
    /\ database.reachable
    /\ database.rows # <<>>
    /\ Len(database.log) = 1
    /\ call.rows = <<>>

\* a call of generate_html or generate_pdf, up to the start of rendering
GenerateStep == pc = "idle" /\ call'.op \in {"generate_html", "generate_pdf"}

\* generate handed the template's query to the data source
QuerySent == database'.log = Append(database.log, report_def.query)

\* what the table answers to the template's query
TableAnswer ==
    IF report_def.query = sSelect
    THEN database.rows
    ELSE SubSeq(database.rows, 1, IF Len(database.rows) < 1 THEN Len(database.rows) ELSE 1)

\* the query's rows are bound and rendering starts on them with nothing written yet
BoundThenRenders == data' = TableAnswer /\ pc' \in {"title", "pdfTitle"} /\ output' = <<>>

\* C17 as stated: generate runs the template's query through the data source
\* exactly when no rows are bound and the template has a query, stores the
\* returned rows as the bound data and only then renders; with rows bound it
\* never calls the data source.
C17_GenerateQueriesWhenUnbound ==
    [][GenerateStep =>
        /\ QuerySent <=> (data = <<>> /\ report_def.query # <<>>)
        /\ (QuerySent /\ call'.raised = "none") => BoundThenRenders
        /\ data # <<>> => database'.log = database.log /\ data' = data]_vars

\* C17 amended: generate runs the template's query through the data source
\* exactly when no rows are bound, the template has a query and a data source
\* is configured; when the query succeeds it stores the returned rows as the
\* bound data and only then renders; with rows bound it never calls the data
\* source.
C17_GenerateQueriesWhenUnboundAndConfigured ==
    [][GenerateStep =>
        /\ QuerySent <=> (data = <<>> /\ report_def.query # <<>> /\ database_engine.present)
        /\ (QuerySent /\ call'.raised = "none") => BoundThenRenders
        /\ data # <<>> => database'.log = database.log /\ data' = data]_vars

\* generate_html ran the query on unbound data and is about to render the three rows of the table
C17_Witness ==
    /\ call.op = "generate_html"
    /\ pc = "title"
    /\ database.log = <<sSelect>>
    /\ report_def.query = sSelect
    /\ data = TableRows3
    /\ output = <<>>

\* generate_html or generate_pdf has been called
Generated == call.op \in {"generate_html", "generate_pdf"}

\* validate_report on this facade reports valid = False
Invalid == ~validate_report(report_def, data, database_engine, database).valid

\* generate has to run the template's query and the query cannot be run
QueryCannotRun ==
    /\ data = <<>>
    /\ report_def.query # <<>>
    /\ \/ ~database_engine.present
       \/ ~database.reachable
       \/ report_def.query = sBadQuery

\* generate went on to the first band of a renderer
StartsRendering == call'.raised = "none" /\ pc' \in {"title", "pdfTitle"}

\* generate raised DatabaseError before any renderer was made
FailsBeforeRendering == call'.raised = "DatabaseError" /\ pc' = "raised"

\* C18 as stated: in every facade state in which validate reports valid=false
\* (dangling field reference, no query and no data, failed connection test)
\* generate still renders and returns an output document instead of failing.
C18_GenerateIndependentOfValidation ==
    /\ [][(GenerateStep /\ Invalid) => StartsRendering]_vars
    /\ [](Generated => pc # "raised")

\* C18 amended: in every facade state in which validate reports valid=false
\* generate still renders and returns an output document instead of failing,
\* unless it has to run the template's query (no rows bound, query present)
\* and the query cannot be run (no data source configured, connection or
\* query failure); then it raises DatabaseError.
C18_GenerateIndependentUnlessQueryFails ==
    /\ [][(GenerateStep /\ Invalid) =>
            IF QueryCannotRun THEN FailsBeforeRendering ELSE StartsRendering]_vars
    /\ []((Generated /\ pc = "raised") => QueryCannotRun)

\* generate_html returned a document on bound rows although the connection test fails
C18_Witness ==
    /\ call.op = "generate_html"
    /\ pc = "done"
    /\ Invalid
    /\ database_engine.present
    /\ ~database.reachable
    /\ data # <<>>
    /\ output # <<>>

\* no rows are bound and the template has no query
ZeroRowsNoQuery == data = <<>> /\ report_def.query = <<>>

\* C19: generating any format from a template with zero bound rows and no
\* query succeeds: generate goes on to render without touching the data source
\* and never ends in an error, also when the template has no detail band or no
\* fields.
C19_EmptyReportGenerates ==
    /\ [][(GenerateStep /\ ZeroRowsNoQuery) =>
            call'.raised = "none" /\ pc' \in {"title", "pdfTitle"} /\ database' = database /\ data' = <<>>]_vars
    /\ []((Generated /\ ZeroRowsNoQuery) => pc # "raised")

\* generate_pdf returned a document for a template without fields, detail band,
\* query and rows
C19_Witness ==
    /\ call.op = "generate_pdf"
    /\ pc = "done"
    /\ ZeroRowsNoQuery
    /\ report_def.fields = <<>>
    /\ "detail" \notin DOMAIN report_def.bands
    /\ call.raised = "none"

\* a facade operation that uses the data source has been called and has returned or raised
OperationCompleted ==
    /\ call.op \in {"preview_data", "generate_html", "generate_pdf", "get_database_schema", "validate_report"}
    /\ pc \in {"idle", "done", "raised"}

\* C20: connections are acquired and released per operation: after every
\* completed execute_query, get_tables, get_table_schema or test_connection
\* call, and therefore after every preview and generate on a facade, the
\* engine holds no open connection.
C20_NoConnectionAfterOperation == OperationCompleted => database_engine.connection = "none"

\* a step of an operation on the instance at work: the caller does not turn to the other one
OperationStep == other.present /\ other'.present /\ other'.name = other.name

\* C21: facade instances share no mutable state: in every interleaving of
\* set_data, set_parameters, validate, preview and generate on two instances,
\* no step of an operation on one instance changes the bound rows, the
\* parameters, the template or the render output of the other.
C21_InstancesIndependent ==
    [][OperationStep =>
        /\ other'.data = other.data
        /\ other'.parameters = other.parameters
        /\ other'.source = other.source
        /\ other'.report_def = other.report_def
        /\ other'.output = other.output
        /\ other'.variables = other.variables]_vars

\* one instance was given rows by set_data, then the other one, holding
\* different rows, rendered its document
C21_Witness ==
    /\ other.present
    /\ other.call.op = "set_data"
    /\ call.op = "generate_html"
    /\ pc = "done"
    /\ data # <<>>
    /\ other.data # <<>>
    /\ data # other.data
    /\ output # <<>>

\* two instances built from the same source hold the same rows and parameters
\* and both have rendered their HTML document
TwinsRendered ==
    /\ other.present
    /\ pc = "done"
    /\ other.pc = "done"
    /\ fmt = "html"
    /\ other.fmt = "html"
    /\ source = other.source
    /\ data = other.data
    /\ parameters = other.parameters

\* generate_html has returned a second document on this instance, from the
\* same rows and parameters as the one before
RenderedAgain ==
    /\ pc = "done"
    /\ previous.present
    /\ fmt = "html"
    /\ previous.fmt = "html"
    /\ previous.data = data
    /\ previous.parameters = parameters

\* C22: HTML generation is deterministic: two instances built from the same
\* template source and given the same rows and parameters produce identical
\* output, and so do two successive generate calls on one instance.
C22_HtmlDeterministic ==
    /\ TwinsRendered => output = other.output
    /\ RenderedAgain => output = previous.output

\* one instance rendered a grouped report twice and its twin rendered it once
C22_Witness ==
    /\ TwinsRendered
    /\ other.previous.present
    /\ other.previous.output = output
    /\ report_def.groups # <<>>
    /\ Len(data) = 2
    /\ output # <<>>

\* the source text is not well-formed markup
NotWellFormed == source.markup # "wellformed"

\* C23: parsing a source that is not well-formed markup fails with the parse
\* error and produces no template: parse returns either a complete
\* ReportDefinition or raises JRXMLParseError, and a facade constructed from
\* such a source does not come into existence with a partial template.
C23_MalformedSourceGivesNoTemplate ==
    /\ (call.op = "parse" /\ NotWellFormed) =>
            call.raised = "JRXMLParseError" /\ report_def = NoReport /\ pc = "failed"
    /\ call.op = "parse" =>
            \/ call.raised = "none" /\ report_def = Parse(source)
            \/ call.raised = "JRXMLParseError" /\ report_def = NoReport
    /\ (pc \notin {"new", "failed", "returned"} /\ call.op # "parse") =>
            source.markup = "wellformed" /\ report_def = Parse(source)
    /\ (pc = "returned" /\ NotWellFormed) => report_def = NoReport /\ outcome.error # "none"
    /\ (pc = "failed" /\ call.op = "__init__") => call.raised # "none" /\ report_def = NoReport

\* parse was called on a source with an unclosed tag and raised
C23_Witness ==
    /\ call.op = "parse"
    /\ source.markup = "unclosed"
    /\ pc = "failed"
    /\ call.raised = "JRXMLParseError"

\* the format asked of save_report or generate_report is none the library renders
UnsupportedFormat ==
    /\ call.op \in {"save_report", "generate_report"}
    /\ Lower(outcome.format) \notin {sHtml, sPdf}

\* C24: a request for an unsupported output format is surfaced as a
\* RenderError: save_report raises RenderError for it, and generate_report
\* answers it with an error and no document, never with a document in
\* another format.
C24_UnsupportedFormatIsRenderError ==
    /\ (UnsupportedFormat /\ call.op = "save_report") =>
            pc = "raised" /\ call.raised = "RenderError" /\ ~outcome.file.present
    /\ (UnsupportedFormat /\ call.op = "generate_report") =>
            /\ pc \in {"returned"}
            /\ outcome.error # "none"
            /\ ~outcome.content.present

\* generate_report has returned its pair
Returned == pc = "returned" /\ call.op = "generate_report"

\* a save_report call ends with an exception
SaveFails == call'.op = "save_report" /\ pc' = "raised"

\* C25: generate_report never raises and returns exactly one of content and
\* error message; a save_report call that fails, because generation fails
\* or the format is unsupported, leaves the output file as it was, and a
\* file is only ever written with the complete generated document.
C25_FailureIsAnErrorValue ==
    /\ [](call.op = "generate_report" => pc # "raised" /\ call.raised = "none")
    /\ [](Returned => (outcome.content.present <=> outcome.error = "none"))
    /\ [](Returned /\ outcome.content.present => outcome.content.output = output /\ output # <<>>)
    /\ [][SaveFails => outcome'.file = outcome.file]_vars
    /\ [][outcome'.file # outcome.file => pc = "done" /\ outcome'.file.output = output]_vars

\* generate_report returned the message of a database failure and no content
C25_Witness ==
    /\ Returned
    /\ outcome.error = "Database error"
    /\ ~outcome.content.present

\* the facade exists: its constructor has returned
Constructed == pc \notin {"new", "failed", "returned"}

\* C26: once the facade is constructed, no operation on it (set_data,
\* set_parameters, set_database_connection, execute_query, validate_report,
\* preview_data, generate_html, generate_pdf, save_report, get_report_info,
\* get_database_schema) and no step of rendering changes the parsed template:
\* its fields, variables, groups, bands, query and page geometry stay those
\* the parser produced from the source.
C26_TemplateNeverMutated ==
    /\ [][Constructed => report_def' = report_def]_vars
    /\ [](Constructed => report_def = Parse(source))

\* a grouped report with rows bound has been generated in full as the last of
\* the facade's operations
C26_Witness ==
    /\ pc = "done"
    /\ call.n = MaxCalls
    /\ report_def.groups # <<>>
    /\ output # <<>>
    /\ data # <<>>
    /\ report_def = Parse(source)

\* the rows bound to the report: those the data source returns for the
\* template's query, none without a SQLite source that answers it
BoundRows ==
    IF outcome.connection = "sqlite" /\ database.reachable /\ QueryOk(parse_query(source.query))
    THEN QueryRows(database.rows, parse_query(source.query))
    ELSE <<>>

\* C27: the CSV output is one header record followed by one record per bound
\* data row, cells in the order of the template's field declarations; with
\* zero rows bound there is no data record.
C27_CsvHeaderThenOneRecordPerRow ==
    (call.op = "generate_csv_fallback" /\ outcome.content.present) =>
        /\ Len(outcome.content.output) = 1 + Len(BoundRows)
        /\ outcome.content.output = CsvRecords(source.fields, BoundRows)

\* the key group_by reads from a row: its value of the field, None without it
KeyOf(row) == DictGet(row, call.field, PyNone)

\* the rows of data whose key equals key, in their order in data
RowsKeyed(key) == SelectSeq(data, LAMBDA row : PyEq(KeyOf(row), key))

\* the positions in data at which a key value occurs for the first time
FirstOccurrences == {i \in 1..Len(data) : \A j \in 1..(i - 1) : ~PyEq(KeyOf(data[j]), KeyOf(data[i]))}

\* C28: group_by(field) partitions the rows by their value of field: each
\* group holds exactly the rows with its key, in input order; every row's key
\* has a group; no two groups share a key, so there are as many groups as
\* distinct key values; and the row list given to the processor is unchanged.
C28_GroupByPartitions ==
    /\ [](call.op = "group_by" =>
            /\ \A g \in 1..Len(grouped_data) : grouped_data[g].rows = RowsKeyed(grouped_data[g].key)
            /\ \A i \in 1..Len(data) : \E g \in 1..Len(grouped_data) : PyEq(grouped_data[g].key, KeyOf(data[i]))
            /\ \A g, h \in 1..Len(grouped_data) : PyEq(grouped_data[g].key, grouped_data[h].key) => g = h
            /\ Len(grouped_data) = Cardinality(FirstOccurrences))
    /\ [][call'.op = "group_by" => data' = data]_vars

\* rows whose keys alternate were grouped, one of them lacking the field
C28_Witness ==
    /\ call.op = "group_by"
    /\ call.field = nG
    /\ Len(data) = 3
    /\ Len(grouped_data) = 2
    /\ KeyOf(data[1]) = KeyOf(data[3])
    /\ KeyOf(data[2]) = PyNone

\* this step is a call of one of ops that ends with an exception
FailedCall(ops) == call'.n = call.n + 1 /\ call'.op \in ops /\ call'.raised # "none"

\* C29: a failed operation leaves the facade as it was: after a failed
\* execute_query, generate_html or generate_pdf the bound rows and the
\* parameters are those from before the call, and after a failed
\* set_database_connection the engine configured before is still the one held.
C29_FailedOperationKeepsState ==
    /\ [][FailedCall({"execute_query", "generate_html", "generate_pdf"}) =>
                data' = data /\ parameters' = parameters]_vars
    /\ [][FailedCall({"set_database_connection"}) =>
                database_engine' = database_engine /\ data' = data /\ parameters' = parameters]_vars

\* set_database_connection was refused for its connection string while an
\* engine configured earlier is held
C29_Witness ==
    /\ call.op = "set_database_connection"
    /\ call.raised = "DatabaseError"
    /\ database_engine.present
    /\ database_engine.db_type = "sqlite"

\* C30: a DatabaseEngine never leaks a connection: it never opens a new
\* connection while one it opened before is still open, so no connection is
\* ever let go of without disconnect having closed it.
C30_NoConnectionLeaked == database_engine.present => database_engine.unclosed = 0

====
